---- MODULE Spec2Model ----
(***************************************************************************)
(* Timing reconciliation and assembly of the dubbing pipeline:             *)
(* generateTTSSegments (per-cue rate fitting) followed by the timing-debt  *)
(* assembly pass of generateTTSWithTiming.                                 *)
(*                                                                         *)
(* Times are integers in milliseconds (0.01 s = 10, 0.5 s = 500).          *)
(* Speaking rates are exact fractions <<num, den>>.                        *)
(***************************************************************************)
EXTENDS Integers, Sequences, FiniteSets, TLC

\* ------------------------------------------------------------------ bounds

\* Largest number of cues in one run.
MaxCues == 3

\* ------------------------------------------------------- program constants

\* 0.01 s: the smallest silence/drift the assembler acts on.
Epsilon == 10
\* 0.001 s: the threshold of the initial silence.
InitialSilenceMin == 1
\* 0.1 s: the shortest silence written for an empty cue.
MinEmptySilence == 100
syncThreshold == 500
maxAttempts == 3
maxSpeakingRate == <<2, 1>>
minSpeakingRate == <<1, 4>>
\* DEFAULT_TTS_OPTIONS.speakingRate
baseSpeakingRate == <<1, 1>>

\* ------------------------------------------------------------ input values

\* A cue is drawn as (idle time before it, window length, empty text?); a
\* negative idle time is a cue that starts before the previous one ends.
CueShapes ==
  { [gap |-> 0,    win |-> 1000, empty |-> FALSE],
    [gap |-> 5,    win |-> 1000, empty |-> FALSE],
    [gap |-> 30,   win |-> 1000, empty |-> FALSE],
    [gap |-> 1000, win |-> 1000, empty |-> FALSE],
    [gap |-> -200, win |-> 1000, empty |-> FALSE],
    [gap |-> 1000, win |-> 50,   empty |-> TRUE],
    [gap |-> 0,    win |-> 1000, empty |-> TRUE] }

\* Durations getAudioDuration can report for a rendered or trimmed file.
DurVals == {400, 1000, 1015, 1600, 3000}

\* ----------------------------------------------------------------- helpers

Max(a, b) == IF a >= b THEN a ELSE b
Min(a, b) == IF a <= b THEN a ELSE b
Abs(a) == IF a >= 0 THEN a ELSE -a

RECURSIVE GCD(_, _)
GCD(a, b) == IF b = 0 THEN a ELSE GCD(b, a % b)

Reduce(r) == LET g == GCD(r[1], r[2]) IN <<r[1] \div g, r[2] \div g>>
RateLT(a, b) == a[1] * b[2] < b[1] * a[2]
RateLE(a, b) == a[1] * b[2] <= b[1] * a[2]

\* Math.max(minSpeakingRate, Math.min(maxSpeakingRate, r))
ClampRate(r) ==
  LET lo == IF RateLT(maxSpeakingRate, r) THEN maxSpeakingRate ELSE r
  IN  IF RateLT(lo, minSpeakingRate) THEN minSpeakingRate ELSE lo

NewSpeakingRate_Inverse(rate, actual, expected) ==
  Reduce(<<rate[1] * expected, rate[2] * actual>>)

\* currentRate * (actualDuration / expectedDuration)
NewSpeakingRate(rate, actual, expected) ==
  Reduce(<<rate[1] * actual, rate[2] * expected>>)

\* The cue list a sequence of shapes denotes: absolute start and end times.
RECURSIVE CuesFrom(_, _)
CuesFrom(shapes, t) ==
  IF shapes = <<>> THEN <<>>
  ELSE LET s == Head(shapes)
           st == Max(0, t + s.gap)
       IN  <<[start |-> st, end |-> st + s.win, empty |-> s.empty]>>
           \o CuesFrom(Tail(shapes), st + s.win)

ShapeLists == UNION { [1..n -> CueShapes] : n \in 0..MaxCues }

Perms(n) == { f \in [1..n -> 1..n] : \A a, b \in 1..n : f[a] = f[b] => a = b }

Permute(s, f) == [j \in 1..Len(s) |-> s[f[j]]]

\* segments.sort((a, b) => a.start - b.start): a stable insertion sort.
RECURSIVE InsertByStart(_, _)
InsertByStart(sorted, c) ==
  IF sorted = <<>> THEN <<c>>
  ELSE IF c.start < Head(sorted).start THEN <<c>> \o sorted
  ELSE <<Head(sorted)>> \o InsertByStart(Tail(sorted), c)

RECURSIVE SortByStart(_)
SortByStart(s) ==
  IF s = <<>> THEN <<>>
  ELSE InsertByStart(SortByStart(SubSeq(s, 1, Len(s) - 1)), s[Len(s)])

RECURSIVE SumDur(_)
SumDur(ps) == IF ps = <<>> THEN 0 ELSE Head(ps).dur + SumDur(Tail(ps))

\* ------------------------------------------------------------------- state

VARIABLES
  segments,               \* the cue list (sorted in place when the run starts)
  pc,                     \* "start" | "fit" | "assemble" | "cleanup" | "done"
  outcome,                \* "running" | "ok" | "error"
  tempDir,                \* TRUE while temp_segments exists
  \* generateTTSSegments
  i,                      \* index of the cue being fitted (1-based)
  lpc,                    \* "loop" (inside the while) | "after" (left it)
  attempts,
  ttsCalls,               \* generateTTS calls made for the current cue
  currentRate,            \* currentOptions.speakingRate ?? baseSpeakingRate
  actualDuration,
  expectedDuration,
  gapExtensionApplied,
  results,                \* segmentResults
  \* assembly pass of generateTTSWithTiming
  k,                      \* index of the cue being placed (1-based)
  apc,                    \* "initial" | "drift" | "segment" | "gap" | "end"
  audioWithSilence,       \* the pieces pushed so far
  timingDebt,
  actualTimelinePosition,
  debtToPay               \* what the last gap step paid back (0 if nothing)

fitVars == <<i, lpc, attempts, ttsCalls, currentRate, actualDuration,
             expectedDuration, gapExtensionApplied, results>>
asmVars == <<k, apc, audioWithSilence, timingDebt, actualTimelinePosition,
             debtToPay>>
pipeVars == <<segments, pc, outcome, tempDir, fitVars, asmVars>>

VARIABLES
  \* getCacheKey applied to two inputs
  keyArgs,                \* the two (text, options) inputs
  cacheKeys,              \* <<>> until computed, then the two keys
  \* the TTS cache shared by the jobs that run side by side
  callers,                \* per job: its generateTTS call in progress
  cacheFiles,             \* per key: 0 (no file) or the job that wrote it
  synthCount              \* per key: synthesizeSpeech requests made

VARIABLES
  \* the job queue of the job manager
  processingCount,
  jobQueue,               \* ids waiting for processNextJob
  jobStatus,              \* per id: "none" until created, then the status
  awaiting,               \* ids whose processNextJob awaits getPendingJobs
  running,                \* ids handed to processJob and not yet finished
  started,                \* ids of running whose processJob found the job
  progressSent,           \* ids with an un-awaited progress update in flight
  userCredits,            \* the userCredits record of one user
  userJobs,               \* that user's jobs: where processJob is in each
  gen,                    \* one generateTTS call: its locals and its files
  audioCache,             \* the cache entries, by cleaned text
  targetSpeed,            \* adjustAudioSpeed: its argument,
  remainingSpeed,         \* its local of the same name,
  filters,                \* the atempo stages pushed so far,
  speedPc,                \* and where it is: in the loop, or past it
  duckOptions,            \* applySidechainCompression: its options argument
  duckFilter              \* and the compressor stage handed to ffmpeg

VARIABLES
  \* files and results of one generateTTSWithTiming run
  lostFiles,              \* cues whose segment file no longer exists
  emptyFiles,             \* positions in audioWithSilence of zero-size files
  trimFailed,             \* trim fallbacks that ended in the catch: the cue
                          \* and its actualDuration before the fallback
  cacheHitCues,           \* cues whose result has cacheHit = true
  trimSaved,              \* trim fallbacks that replaced the file: the cue
                          \* and its savedTime
  outputTrack,            \* the pieces concatenated into outputPath, or <<>>
  thrown,                 \* the error the run threw, or NoError
  previous,               \* what an earlier run on the same input assembled,
                          \* or <<>>
  \* processJob for one job, and the records it works on
  pj,                     \* processJob: position and locals
  db                      \* the job's record and the user's credits

keyVars == <<keyArgs, cacheKeys>>
faultVars == <<lostFiles, emptyFiles, trimFailed, cacheHitCues, trimSaved>>
outVars == <<outputTrack, thrown>>
jobVars == <<pj, db>>
cacheVars == <<callers, cacheFiles, synthCount>>
queueVars == <<processingCount, jobQueue, jobStatus, awaiting, running, started, progressSent>>
\* everything but the state of one generateTTSWithTiming run
creditVars == <<userCredits, userJobs>>
rateVars == <<gen, audioCache>>
speedVars == <<targetSpeed, remainingSpeed, filters, speedPc>>
duckVars == <<duckOptions, duckFilter>>
audioVars == <<rateVars, speedVars, duckVars>>
otherVars == <<keyVars, cacheVars, queueVars, jobVars, previous, creditVars, audioVars, audioVars>>
restVars == <<faultVars, outVars, previous, otherVars>>
vars == <<pipeVars, restVars>>

N == Len(segments)

\* An error as thrown: its kind, and the cue index its message names (0 if
\* the message names none).
NoError == [kind |-> "none", cue |-> 0]
Error(kind, cue) == [kind |-> kind, cue |-> cue]

\* ---------------------------------------------- generateTTSSegments, pieces

\* !segment.text || segment.text.trim().length === 0
IsEmptyText(seg) == seg.empty

\* segment?.end && segment?.start ? segment.end - segment.start : 0.1
EmptyExpectedDuration(seg) ==
  IF seg.end # 0 /\ seg.start # 0 THEN seg.end - seg.start ELSE MinEmptySilence

\* insertSilence(outputPath, Math.max(0.1, expectedDuration))
EmptySilenceDuration(seg) == Max(MinEmptySilence, EmptyExpectedDuration(seg))

\* What the empty branch pushes; fileDur is the real length of the file.
EmptyResult(seg) ==
  [ overflow |-> 0,
    expectedDuration |-> EmptyExpectedDuration(seg),
    actualDuration |-> EmptyExpectedDuration(seg),
    fileDur |-> EmptySilenceDuration(seg) ]

GapToUse_NoMin(gapToNextSegment, extraTimeNeeded) == extraTimeNeeded

\* Math.min(gapToNextSegment, extraTimeNeeded)
GapToUse(gapToNextSegment, extraTimeNeeded) ==
  Min(gapToNextSegment, extraTimeNeeded)

\* The expectedDuration after the gap-extension block of one loop iteration.
ExtendedExpected(j, measured, expected, att, applied) ==
  LET base == segments[j].end - segments[j].start
  IN  IF att = 0 /\ ~applied /\ measured > base /\ j < N
      THEN LET gapToNextSegment == segments[j + 1].start - segments[j].end
               use == GapToUse(gapToNextSegment, measured - base)
           IN  IF gapToNextSegment > Epsilon /\ use > Epsilon
               THEN base + use ELSE expected
      ELSE expected

CloseEnough_Abs(actual, expected) ==
  \/ Abs(actual - expected) <= syncThreshold
  \/ expected <= 0

\* durationDiff <= syncThreshold || expectedDuration <= 0 || durationDiff < 0
CloseEnough(actual, expected) ==
  \/ actual - expected <= syncThreshold
  \/ expected <= 0
  \/ actual - expected < 0

\* clampedRate >= maxSpeakingRate && actualDuration > expectedDuration
HitMaxRate(clamped, actual, expected) ==
  RateLE(maxSpeakingRate, clamped) /\ actual > expected

\* The loop locals as the for-body declares them for cue j of the list segs.
EnterSegment(segs, j) ==
  /\ i' = j
  /\ lpc' = "loop"
  /\ attempts' = 0
  /\ ttsCalls' = 0
  /\ currentRate' = baseSpeakingRate
  /\ actualDuration' = 0
  /\ gapExtensionApplied' = FALSE
  /\ expectedDuration' =
       IF j <= Len(segs) /\ ~IsEmptyText(segs[j])
       THEN segs[j].end - segs[j].start ELSE 0

\* results.push(...) and the step of the for loop: the next cue, or the
\* return to generateTTSWithTiming once every cue has a result.
PushResult(r) ==
  /\ results' = Append(results, r)
  /\ EnterSegment(segments, i + 1)
  /\ pc' = IF i < N THEN "fit" ELSE "assemble"

\* ------------------------------------------------------------ the TTS cache

\* A text is a sequence of one-character strings; the texts here hold no
\* markup and no entities.
Whitespace == {" ", "\t"}
IsSpace(c) == c \in Whitespace

RECURSIVE TrimStart(_)
TrimStart(t) ==
  IF t # <<>> /\ IsSpace(Head(t)) THEN TrimStart(Tail(t)) ELSE t

RECURSIVE TrimEnd(_)
TrimEnd(t) ==
  IF t # <<>> /\ IsSpace(t[Len(t)])
  THEN TrimEnd(SubSeq(t, 1, Len(t) - 1)) ELSE t

\* String.prototype.trim
Trim(t) == TrimEnd(TrimStart(t))

\* replace(/\s+/g, ' ')
RECURSIVE CollapseSpaces(_)
CollapseSpaces(t) ==
  IF t = <<>> THEN <<>>
  ELSE IF IsSpace(Head(t))
       THEN <<" ">> \o CollapseSpaces(TrimStart(Tail(t)))
       ELSE <<Head(t)>> \o CollapseSpaces(Tail(t))

\* String.prototype.toLowerCase
ToLowerCase(t) ==
  [j \in 1..Len(t) |->
     IF t[j] = "A" THEN "a" ELSE IF t[j] = "B" THEN "b" ELSE t[j]]

\* cleanTextForTTS on a text without markup: collapse, then trim.
cleanTextForTTS(text) == Trim(CollapseSpaces(text))

normalizeText_NoLower(text) == CollapseSpaces(Trim(text))

\* text.trim().replace(/\s+/g, ' ').toLowerCase()
normalizeText(text) == ToLowerCase(CollapseSpaces(Trim(text)))

\* Options are records that hold only the fields the caller passed.
DEFAULT_TTS_OPTIONS ==
  [ languageCode |-> "pl-PL", voiceName |-> "pl-PL-Standard-G",
    audioEncoding |-> "MP3", speakingRate |-> baseSpeakingRate, pitch |-> 0 ]

\* { ...DEFAULT_TTS_OPTIONS, ...options }
MergeDefaults(options) ==
  [f \in DOMAIN DEFAULT_TTS_OPTIONS |->
     IF f \in DOMAIN options THEN options[f] ELSE DEFAULT_TTS_OPTIONS[f]]

\* options?.field || fallback, for a string field and for a number field
OrString(options, f, fallback) ==
  IF f \in DOMAIN options /\ options[f] # "" THEN options[f] ELSE fallback
OrNumber(options, f, fallback) ==
  IF f \in DOMAIN options /\ options[f] # 0 THEN options[f] ELSE fallback

\* The SHA-256 digest of JSON.stringify(keyData) is written as the fields
\* of keyData in their order: the digest is taken to be collision-free.
getCacheKey(text, options) ==
  << normalizeText(text),
     OrString(options, "languageCode", "pl-PL"),
     OrString(options, "voiceName", "pl-PL-Standard-G"),
     OrString(options, "audioEncoding", "MP3"),
     OrNumber(options, "pitch", 0) >>

\* The parts of the state a specification does not exercise stay at rest.
KeyIdle == keyArgs = <<>> /\ cacheKeys = <<>>
CacheIdle == callers = <<>> /\ cacheFiles = <<>> /\ synthCount = <<>>
FilesIdle ==
  /\ lostFiles = {} /\ emptyFiles = {} /\ trimFailed = {}
  /\ cacheHitCues = {} /\ trimSaved = {}
  /\ outputTrack = <<>> /\ thrown = NoError
  /\ previous = <<>>
JobIdle == pj = <<>> /\ db = <<>>
CreditIdle == userCredits = <<>> /\ userJobs = <<>>
RateIdle == gen = <<>> /\ audioCache = <<>>
SpeedIdle ==
  targetSpeed = <<>> /\ remainingSpeed = <<>> /\ filters = <<>> /\ speedPc = "idle"
DuckIdle == duckOptions = <<>> /\ duckFilter = <<>>
AudioIdle == RateIdle /\ SpeedIdle /\ DuckIdle
QueueIdle ==
  /\ processingCount = 0 /\ jobQueue = <<>> /\ jobStatus = <<>>
  /\ awaiting = {} /\ running = {} /\ started = {} /\ progressSent = {}
PipeIdle ==
  /\ segments = <<>> /\ pc = "done" /\ outcome = "ok" /\ tempDir = FALSE
  /\ i = 0 /\ lpc = "loop" /\ attempts = 0 /\ ttsCalls = 0
  /\ currentRate = baseSpeakingRate
  /\ actualDuration = 0 /\ expectedDuration = 0
  /\ gapExtensionApplied = FALSE
  /\ results = <<>>
  /\ k = 0 /\ apc = "initial"
  /\ audioWithSilence = <<>>
  /\ timingDebt = 0
  /\ actualTimelinePosition = 0
  /\ debtToPay = 0

\* --------------------------------------------------------------- the run

Init ==
  /\ \E shapes \in ShapeLists :
       \E f \in Perms(Len(shapes)) :
         segments = Permute(CuesFrom(shapes, 0), f)
  /\ pc = "start"
  /\ outcome = "running"
  /\ tempDir = FALSE
  /\ i = 0 /\ lpc = "loop" /\ attempts = 0 /\ ttsCalls = 0
  /\ currentRate = baseSpeakingRate
  /\ actualDuration = 0 /\ expectedDuration = 0
  /\ gapExtensionApplied = FALSE
  /\ results = <<>>
  /\ k = 0 /\ apc = "initial"
  /\ audioWithSilence = <<>>
  /\ timingDebt = 0
  /\ actualTimelinePosition = 0
  /\ debtToPay = 0
  /\ FilesIdle
  /\ KeyIdle /\ CacheIdle /\ QueueIdle /\ JobIdle /\ CreditIdle /\ AudioIdle

\* generateTTSWithTiming up to the call of generateTTSSegments: the temp
\* directory is created and the cue list is sorted in place.
Begin ==
  /\ pc = "start"
  /\ tempDir' = TRUE
  /\ segments' = SortByStart(segments)
  /\ EnterSegment(SortByStart(segments), 1)
  /\ pc' = IF N > 0 THEN "fit" ELSE "assemble"
  /\ UNCHANGED <<outcome, results, asmVars>>

\* The empty-text branch of the for loop: a silence file, no synthesis.
FitEmptySegment ==
  /\ pc = "fit" /\ lpc = "loop"
  /\ IsEmptyText(segments[i])
  /\ PushResult(EmptyResult(segments[i]))
  /\ UNCHANGED <<segments, outcome, tempDir, asmVars>>

\* One iteration of the while loop: render at the current rate, measure,
\* extend into the gap (first iteration only), then leave the loop or
\* schedule a faster render.
RenderAttempt ==
  /\ pc = "fit" /\ lpc = "loop"
  /\ ~IsEmptyText(segments[i])
  /\ attempts < maxAttempts
  /\ \E measured \in DurVals :
       LET expected == ExtendedExpected(i, measured, expectedDuration,
                                        attempts, gapExtensionApplied)
           clamped == ClampRate(NewSpeakingRate(currentRate, measured, expected))
       IN  /\ ttsCalls' = ttsCalls + 1
           /\ actualDuration' = measured
           /\ expectedDuration' = expected
           /\ gapExtensionApplied' =
                (gapExtensionApplied \/ expected # expectedDuration)
           /\ IF CloseEnough(measured, expected)
                 \/ HitMaxRate(clamped, measured, expected)
              THEN /\ lpc' = "after"
                   /\ UNCHANGED <<currentRate, attempts>>
              ELSE /\ currentRate' = clamped
                   /\ attempts' = attempts + 1
                   /\ lpc' = IF attempts + 1 < maxAttempts THEN "loop" ELSE "after"
  /\ UNCHANGED <<segments, pc, outcome, tempDir, i, results, asmVars>>

\* generateTTS throws (the synthesis call failed): the error leaves
\* generateTTSSegments and generateTTSWithTiming through the finally block.
SynthesisFails ==
  /\ pc = "fit" /\ lpc = "loop"
  /\ ~IsEmptyText(segments[i])
  /\ outcome' = "error"
  /\ thrown' = Error("synthesis", 0)
  /\ pc' = "cleanup"
  /\ UNCHANGED <<segments, tempDir, fitVars, asmVars>>

\* The result pushed for a fitted cue whose file lasts `actual`.
FittedResult(actual) ==
  [ overflow |-> actual - expectedDuration,
    expectedDuration |-> expectedDuration,
    actualDuration |-> actual,
    fileDur |-> actual ]

\* After the loop, finalDiff <= syncThreshold: no trimming.
KeepSegment ==
  /\ pc = "fit" /\ lpc = "after"
  /\ actualDuration - expectedDuration <= syncThreshold
  /\ PushResult(FittedResult(actualDuration))
  /\ UNCHANGED <<segments, outcome, tempDir, asmVars>>

TrimTrailingSilence_Always ==
  /\ pc = "fit" /\ lpc = "after"
  /\ actualDuration - expectedDuration > syncThreshold
  /\ \E trimmedDuration \in DurVals :
       PushResult(FittedResult(trimmedDuration))
  /\ UNCHANGED <<segments, outcome, tempDir, asmVars>>

\* The trim fallback ran: the trimmed file replaces the original only if
\* it is strictly shorter.
TrimTrailingSilence ==
  /\ pc = "fit" /\ lpc = "after"
  /\ actualDuration - expectedDuration > syncThreshold
  /\ \E trimmedDuration \in DurVals :
       PushResult(FittedResult(IF trimmedDuration < actualDuration
                               THEN trimmedDuration ELSE actualDuration))
  /\ UNCHANGED <<segments, outcome, tempDir, asmVars>>

\* The trim fallback threw: the catch keeps the original file.
TrimFails ==
  /\ pc = "fit" /\ lpc = "after"
  /\ actualDuration - expectedDuration > syncThreshold
  /\ PushResult(FittedResult(actualDuration))
  /\ UNCHANGED <<segments, outcome, tempDir, asmVars>>

\* ------------------------------------------------------ the assembly pass

\* A piece of the output list. `dur` is the real length of its file; `at`
\* and `debt` are the position and the ledger when it was pushed (the
\* values the pass logs with each piece).
Piece(kind, cue, dur) ==
  [kind |-> kind, cue |-> cue, dur |-> dur,
   at |-> actualTimelinePosition, debt |-> timingDebt]

\* segments.length > 0 && segments[0].start > 0.001
NeedsInitialSilence(segs) ==
  Len(segs) > 0 /\ segs[1].start > InitialSilenceMin

DriftPosition_Realign(pos, start) ==
  IF Abs(start - pos) > Epsilon THEN start ELSE pos

\* The position after the drift check of a cue starting at `start`.
DriftPosition(pos, start) ==
  IF start - pos > Epsilon THEN start ELSE pos

DriftDebt_Assign(debt, pos, start) ==
  IF start - pos < -Epsilon THEN pos - start ELSE debt

\* The ledger after the drift check of a cue starting at `start`.
DriftDebt(debt, pos, start) ==
  IF start - pos > Epsilon THEN debt
  ELSE IF start - pos < -Epsilon THEN debt + (pos - start)
  ELSE debt

\* expectedNextStartTime - actualTimelinePosition
GapNeeded(nextStart, pos) == nextStart - pos

DebtToPay_NoMin(debt, gapNeeded) ==
  IF debt > Epsilon /\ gapNeeded - Epsilon > Epsilon
  THEN gapNeeded - Epsilon ELSE 0

\* Math.min(timingDebt, gapNeeded - 0.01), applied only when the ledger and
\* the payment both exceed 0.01; 0 when nothing is paid.
DebtToPay(debt, gapNeeded) ==
  IF debt > Epsilon /\ Min(debt, gapNeeded - Epsilon) > Epsilon
  THEN Min(debt, gapNeeded - Epsilon) ELSE 0

AdjustedGap_KeepMin(gapNeeded, paid) == gapNeeded - paid - Epsilon

\* adjustedGap
AdjustedGap(gapNeeded, paid) == gapNeeded - paid

SegmentAdvance_Nominal(seg, result) == seg.end - seg.start

\* actualTimelinePosition += actualDuration
SegmentAdvance(seg, result) == result.actualDuration

\* Lines 726-743: the ledger starts at 0, the initial silence, and the
\* check that there is at least one result.
InitialSilence ==
  /\ pc = "assemble" /\ apc = "initial"
  /\ IF NeedsInitialSilence(segments)
     THEN /\ audioWithSilence' =
               Append(audioWithSilence, Piece("initial", 0, segments[1].start))
          /\ actualTimelinePosition' = segments[1].start
     ELSE UNCHANGED <<audioWithSilence, actualTimelinePosition>>
  /\ IF Len(results) = 0
     THEN /\ outcome' = "error" /\ pc' = "cleanup"
          /\ thrown' = Error("no segment files", 0)
          /\ UNCHANGED <<k, apc>>
     ELSE /\ k' = 1 /\ apc' = "drift"
          /\ UNCHANGED <<outcome, pc, thrown>>
  /\ UNCHANGED <<segments, tempDir, fitVars, timingDebt, debtToPay>>

DriftCheck_LateAlign ==
  /\ pc = "assemble" /\ apc = "drift"
  /\ LET start == segments[k].start
         gapToExpectedStart == start - actualTimelinePosition
     IN  /\ audioWithSilence' =
              IF gapToExpectedStart > syncThreshold
              THEN Append(audioWithSilence, Piece("align", k, gapToExpectedStart))
              ELSE audioWithSilence
         /\ actualTimelinePosition' =
              IF gapToExpectedStart > syncThreshold
              THEN start ELSE actualTimelinePosition
         /\ timingDebt' = DriftDebt(timingDebt, actualTimelinePosition, start)
  /\ apc' = "segment"
  /\ UNCHANGED <<segments, pc, outcome, tempDir, fitVars, k, debtToPay>>

\* Lines 745-784: align to the cue's nominal start, or book the lead.
DriftCheck ==
  /\ pc = "assemble" /\ apc = "drift"
  /\ LET start == segments[k].start
         gapToExpectedStart == start - actualTimelinePosition
     IN  /\ audioWithSilence' =
              IF gapToExpectedStart > Epsilon
              THEN Append(audioWithSilence, Piece("align", k, gapToExpectedStart))
              ELSE audioWithSilence
         /\ actualTimelinePosition' = DriftPosition(actualTimelinePosition, start)
         /\ timingDebt' = DriftDebt(timingDebt, actualTimelinePosition, start)
  /\ apc' = "segment"
  /\ UNCHANGED <<segments, pc, outcome, tempDir, fitVars, k, debtToPay>>

\* Lines 786-797: push the cue's file, advance by its recorded duration.
AppendSegment ==
  /\ pc = "assemble" /\ apc = "segment"
  /\ audioWithSilence' =
       Append(audioWithSilence, Piece("speech", k, results[k].fileDur))
  /\ actualTimelinePosition' =
       actualTimelinePosition + SegmentAdvance(segments[k], results[k])
  /\ apc' = IF k < N THEN "gap" ELSE "end"
  /\ UNCHANGED <<segments, pc, outcome, tempDir, fitVars, k, timingDebt,
                 debtToPay>>

\* Lines 799-861: the gap to the next cue, shortened by what is paid back.
GapToNext ==
  /\ pc = "assemble" /\ apc = "gap"
  /\ LET gapNeeded == GapNeeded(segments[k + 1].start, actualTimelinePosition)
         paid == IF gapNeeded > Epsilon THEN DebtToPay(timingDebt, gapNeeded) ELSE 0
         adjustedGap == AdjustedGap(gapNeeded, paid)
     IN  /\ debtToPay' = paid
         /\ timingDebt' = timingDebt - paid
         /\ IF gapNeeded > Epsilon /\ adjustedGap > Epsilon
            THEN /\ audioWithSilence' =
                      Append(audioWithSilence,
                             [Piece("gap", k, adjustedGap) EXCEPT
                                !.debt = timingDebt - paid])
                 /\ actualTimelinePosition' = actualTimelinePosition + adjustedGap
            ELSE UNCHANGED <<audioWithSilence, actualTimelinePosition>>
  /\ k' = k + 1
  /\ apc' = "drift"
  /\ UNCHANGED <<segments, pc, outcome, tempDir, fitVars>>

\* fs.stat on the file of piece p: "missing" (stat throws), "empty"
\* (size 0) or "ok".
StatPiece(p) ==
  IF audioWithSilence[p].kind = "speech" /\ audioWithSilence[p].cue \in lostFiles
  THEN "missing"
  ELSE IF p \in emptyFiles THEN "empty" ELSE "ok"

\* validFiles after the first p pieces: those whose size is above 0.
RECURSIVE ValidFiles(_)
ValidFiles(p) ==
  IF p = 0 THEN <<>>
  ELSE IF StatPiece(p) = "ok"
       THEN Append(ValidFiles(p - 1), audioWithSilence[p])
       ELSE ValidFiles(p - 1)

Concatenate_NoCheck ==
  /\ pc = "assemble" /\ apc = "end"
  /\ LET missing == { p \in 1..Len(audioWithSilence) : StatPiece(p) = "missing" }
         validFiles == ValidFiles(Len(audioWithSilence))
     IN  IF missing # {}
         THEN /\ outcome' = "error"
              /\ thrown' = Error("missing or invalid audio file",
                                 audioWithSilence[CHOOSE p \in missing :
                                   \A q \in missing : p <= q].cue)
              /\ UNCHANGED outputTrack
         ELSE /\ outcome' = "ok"
              /\ outputTrack' = validFiles
              /\ UNCHANGED thrown
  /\ pc' = "cleanup"
  /\ UNCHANGED <<segments, tempDir, fitVars, asmVars>>

\* Lines 863-900: the residual debt is logged, the pieces are validated
\* (a file that cannot be read throws, an empty one is skipped) and the
\* valid ones are concatenated; the credit usage is returned.
Concatenate ==
  /\ pc = "assemble" /\ apc = "end"
  /\ LET missing == { p \in 1..Len(audioWithSilence) : StatPiece(p) = "missing" }
         validFiles == ValidFiles(Len(audioWithSilence))
     IN  IF missing # {}
         THEN /\ outcome' = "error"
              /\ thrown' = Error("missing or invalid audio file",
                                 audioWithSilence[CHOOSE p \in missing :
                                   \A q \in missing : p <= q].cue)
              /\ UNCHANGED outputTrack
         ELSE IF validFiles = <<>>
         THEN /\ outcome' = "error"
              /\ thrown' = Error("no valid audio files", 0)
              /\ UNCHANGED outputTrack
         ELSE /\ outcome' = "ok"
              /\ outputTrack' = validFiles
              /\ UNCHANGED thrown
  /\ pc' = "cleanup"
  /\ UNCHANGED <<segments, tempDir, fitVars, asmVars>>

Cleanup_OnSuccess ==
  /\ pc = "cleanup"
  /\ tempDir' = (outcome = "error")
  /\ pc' = "done"
  /\ UNCHANGED <<segments, outcome, fitVars, asmVars>>

\* The finally block: the temp directory is removed on both paths.  fs.rm with
\* recursive and force is taken to succeed; its catch only logs.
Cleanup ==
  /\ pc = "cleanup"
  /\ tempDir' = FALSE
  /\ pc' = "done"
  /\ UNCHANGED <<segments, outcome, fitVars, asmVars>>

Next ==
  \/ Begin /\ UNCHANGED restVars
  \/ FitEmptySegment /\ UNCHANGED restVars
  \/ RenderAttempt /\ UNCHANGED restVars
  \/ SynthesisFails /\ UNCHANGED <<outputTrack, faultVars, otherVars>>
  \/ KeepSegment /\ UNCHANGED restVars
  \/ TrimTrailingSilence /\ UNCHANGED restVars
  \/ TrimFails /\ UNCHANGED restVars
  \/ InitialSilence /\ UNCHANGED <<outputTrack, faultVars, otherVars>>
  \/ DriftCheck /\ UNCHANGED restVars
  \/ AppendSegment /\ UNCHANGED restVars
  \/ GapToNext /\ UNCHANGED restVars
  \/ Concatenate /\ UNCHANGED <<faultVars, otherVars>>
  \/ Cleanup /\ UNCHANGED restVars

Spec == Init /\ [][Next]_vars

\* ------------------------------------------------------------------ claims

Assembling == pc = "assemble"
NominalGap(c) == segments[c + 1].start - segments[c].end
Window(c) == segments[c].end - segments[c].start
HasKind(kind) == \E a \in 1..Len(audioWithSilence) : audioWithSilence[a].kind = kind

OverflowRules(paysAlways) ==
  /\ \* already past the next start by more than epsilon: no gap silence
     (Assembling /\ apc = "gap"
        /\ actualTimelinePosition - segments[k + 1].start > Epsilon)
       => audioWithSilence' = audioWithSilence
  /\ \* the drift check books exactly the lead and aligns nothing
     (Assembling /\ apc = "drift"
        /\ actualTimelinePosition - segments[k].start > Epsilon)
       => /\ audioWithSilence' = audioWithSilence
          /\ timingDebt' =
               timingDebt + (actualTimelinePosition - segments[k].start)
  /\ \* a later gap larger than epsilon repays
     (Assembling /\ apc = "gap"
        /\ segments[k + 1].start - actualTimelinePosition > Epsilon)
       => LET gapNeeded == segments[k + 1].start - actualTimelinePosition
              r == IF timingDebt <= gapNeeded - Epsilon
                   THEN timingDebt ELSE gapNeeded - Epsilon
          IN  timingDebt' =
                IF paysAlways \/ (timingDebt > Epsilon /\ r > Epsilon)
                THEN timingDebt - r ELSE timingDebt
  /\ \* whatever is still owed after the last cue, the pass succeeds
     (Assembling /\ apc = "end") => outcome' = "ok"

\* C2 as stated: every later gap larger than epsilon repays
\* min(TimingDebt, gapNeeded - epsilon).
OverflowRepaidFromEveryGap == [][OverflowRules(TRUE)]_vars

\* C2 (amended): an overflow past the next cue's start by d > epsilon emits
\* no silence, adds exactly d to the ledger at the next drift check, a later
\* gap larger than epsilon repays r = min(TimingDebt, gapNeeded - epsilon)
\* when both the ledger and r exceed epsilon and nothing otherwise, and
\* residual debt does not fail the pass.
OverflowExceedingGap == [][OverflowRules(FALSE)]_vars

\* C2 witness: the pass succeeded with two speech pieces back to back, the
\* second booked as lead, a repayment made from a later gap and debt left.
ResidualDebtReported ==
  /\ outcome = "ok" /\ timingDebt > 0 /\ debtToPay > 0
  /\ \E a \in 1..(Len(audioWithSilence) - 1) :
       /\ audioWithSilence[a].kind = "speech"
       /\ audioWithSilence[a + 1].kind = "speech"
       /\ audioWithSilence[a + 1].debt > audioWithSilence[a].debt

\* The case of an overflow absorbed by the gap after cue c, whose speech is
\* piece a: a non-empty cue that runs o > 0 over its window, with G - o >
\* epsilon and no debt when its speech was pushed.
AbsorbedCase(a, c) ==
  /\ audioWithSilence[a].kind = "speech" /\ audioWithSilence[a].cue = c
  /\ c < N /\ ~IsEmptyText(segments[c])
  /\ results[c].actualDuration - Window(c) > 0
  /\ NominalGap(c) - (results[c].actualDuration - Window(c)) > Epsilon
  /\ audioWithSilence[a].debt = 0

\* What the claim promises once the next cue's speech is pushed.
AbsorbedOutcome(a, c) ==
  Len(audioWithSilence) >= a + 2 =>
    /\ audioWithSilence[a + 1].kind = "gap"
    /\ audioWithSilence[a + 1].dur =
         NominalGap(c) - (results[c].actualDuration - Window(c))
    /\ audioWithSilence[a + 2].kind = "speech"
    /\ audioWithSilence[a + 2].at = segments[c + 1].start
    /\ audioWithSilence[a + 2].debt = 0

\* C3 as stated: with zero debt, an overflow o with G - o > epsilon leaves
\* exactly G - o of silence and the next cue on its nominal start.
OverflowAbsorbedAnyStart ==
  \A a \in 1..Len(audioWithSilence) : \A c \in 1..N :
    AbsorbedCase(a, c) => AbsorbedOutcome(a, c)

\* C3 (amended): the same, for a cue whose own speech started exactly at
\* its nominal start.
OverflowAbsorbedByGap ==
  \A a \in 1..Len(audioWithSilence) : \A c \in 1..N :
    (AbsorbedCase(a, c) /\ audioWithSilence[a].at = segments[c].start)
      => AbsorbedOutcome(a, c)

\* C3 witness: such a cue, with the next cue's speech already pushed.
OverflowAbsorbedReached ==
  \E a \in 1..Len(audioWithSilence) : \E c \in 1..N :
    /\ AbsorbedCase(a, c) /\ audioWithSilence[a].at = segments[c].start
    /\ Len(audioWithSilence) >= a + 2

\* Every cue's file lasts exactly its window and no cue overlaps the next.
ExactFitCase ==
  /\ outcome = "ok"
  /\ \A c \in 1..N : /\ results[c].fileDur = Window(c)
                     /\ results[c].actualDuration = Window(c)
  /\ \A c \in 1..(N - 1) : NominalGap(c) >= 0

\* Every nominal gap is either zero or larger than epsilon, and the first
\* cue starts at zero or later than the initial-silence threshold.
NoSubEpsilonGap ==
  /\ \A c \in 1..(N - 1) : NominalGap(c) = 0 \/ NominalGap(c) > Epsilon
  /\ segments[1].start = 0 \/ segments[1].start > InitialSilenceMin

\* The piece list of an exact fit from cue c on: speech, then the nominal
\* gap when it exceeds epsilon.
RECURSIVE ExactPieces(_)
ExactPieces(c) ==
  IF c > N THEN <<>>
  ELSE <<[kind |-> "speech", dur |-> Window(c)]>>
       \o (IF c < N /\ NominalGap(c) > Epsilon
           THEN <<[kind |-> "gap", dur |-> NominalGap(c)]>> ELSE <<>>)
       \o ExactPieces(c + 1)

\* The leading silence before the first cue, when the code emits one.
LeadPieces ==
  IF segments[1].start > InitialSilenceMin
  THEN <<[kind |-> "initial", dur |-> segments[1].start]>> ELSE <<>>

ExactFitOutcome ==
  /\ [a \in 1..Len(audioWithSilence) |->
        [kind |-> audioWithSilence[a].kind, dur |-> audioWithSilence[a].dur]]
       = LeadPieces \o ExactPieces(1)
  /\ SumDur(audioWithSilence) = segments[N].end
  /\ timingDebt = 0

\* C4 as stated: an exact fit of non-overlapping cues yields speech pieces
\* separated by their nominal gaps, ends at the last cue's end, debt 0.
ExactFitAnyGap == ExactFitCase => ExactFitOutcome

\* C4 (amended): the same when every nominal gap is zero or larger than
\* epsilon (after the leading silence for a first start above 0.001 s).
ExactFit == (ExactFitCase /\ NoSubEpsilonGap) => ExactFitOutcome

\* C4 witness: an exact fit of three cues with a leading silence and a gap.
ExactFitReached ==
  /\ ExactFitCase /\ NoSubEpsilonGap /\ N = 3
  /\ HasKind("initial") /\ HasKind("gap")

\* C5: no silence piece is shorter than epsilon.
NoSubEpsilonSilence ==
  \A a \in 1..Len(audioWithSilence) :
    audioWithSilence[a].kind # "speech" => audioWithSilence[a].dur >= Epsilon

\* C6: the position equals the summed real durations of the pieces pushed.
PositionIsElapsedTime ==
  actualTimelinePosition = SumDur(audioWithSilence)

\* C7: the position never decreases.
PositionMonotone ==
  [][actualTimelinePosition' >= actualTimelinePosition]_vars

\* C7 witness: a finished pass in which every kind of update took place.
AllUpdatesMade ==
  /\ outcome = "ok" /\ actualTimelinePosition > 0
  /\ HasKind("initial") /\ HasKind("align") /\ HasKind("speech") /\ HasKind("gap")

\* C8: an empty cue with window [s, e] yields a silence of max(0.1, e - s)
\* and makes no synthesis call.
EmptyCueSilence ==
  [][(pc = "fit" /\ lpc = "loop" /\ IsEmptyText(segments[i]))
       => /\ ttsCalls = 0 /\ ttsCalls' = 0
          /\ Len(results') = i
          /\ results'[i].fileDur = Max(MinEmptySilence, Window(i))]_vars

\* The first render of a cue, at rate 1.0, came out shorter than expected.
FirstRenderShort ==
  /\ pc = "fit" /\ ttsCalls = 0 /\ ttsCalls' = 1
  /\ currentRate = <<1, 1>>
  /\ actualDuration' < expectedDuration'

\* The loop was left after one render that was shorter than expected.
LeftAfterShortRender ==
  /\ pc = "fit" /\ lpc = "after" /\ ttsCalls = 1
  /\ actualDuration < expectedDuration

\* C9: a first render at rate 1.0 that is shorter than expected ends the
\* loop; the cue is finished without another render, at rate 1.0.
NoSlowdown ==
  [][/\ FirstRenderShort =>
          (lpc' = "after" /\ attempts' = 0 /\ currentRate' = <<1, 1>>)
     /\ LeftAfterShortRender =>
          (currentRate = <<1, 1>> /\ Len(results') = i /\ ttsCalls' = 0)]_vars

\* C9 witness: the loop has been left after a single, short render.
ShortRenderAccepted == LeftAfterShortRender /\ currentRate = <<1, 1>>

\* The bound on the effective expected duration `expected` of cue c.
WithinGap(c, expected) ==
  /\ Window(c) <= expected
  /\ (c < N /\ NominalGap(c) >= 0) => expected <= Window(c) + NominalGap(c)
  /\ (c = N \/ NominalGap(c) <= 0) => expected = Window(c)

\* The bound holds of the cue being fitted and of every fitted result.
ExpectedWithinGap ==
  /\ (pc = "fit" /\ i <= N /\ ~IsEmptyText(segments[i]))
       => WithinGap(i, expectedDuration)
  /\ \A c \in 1..Len(results) :
       ~IsEmptyText(segments[c]) => WithinGap(c, results[c].expectedDuration)

MaxTextLen == 4

KeyChars == {"a", "A", " "}
KeyTexts == UNION { [1..n -> KeyChars] : n \in 0..MaxTextLen }

\* Options as callers pass them: none, the defaults spelled out at another
\* speaking rate, and one record per option that enters the key.
KeyOptions ==
  { <<>>,
    [speakingRate |-> <<3, 2>>, languageCode |-> "pl-PL", pitch |-> 0],
    [languageCode |-> "en-US"],
    [voiceName |-> "pl-PL-Wavenet-A"],
    [audioEncoding |-> "LINEAR16"],
    [pitch |-> 2] }

KeyInputs == [text : KeyTexts, options : KeyOptions]

KeyInit ==
  /\ keyArgs \in KeyInputs \X KeyInputs
  /\ cacheKeys = <<>>
  /\ PipeIdle /\ FilesIdle /\ CacheIdle /\ QueueIdle /\ JobIdle /\ CreditIdle /\ AudioIdle

ComputeKeys ==
  /\ cacheKeys = <<>>
  /\ cacheKeys' = << getCacheKey(keyArgs[1].text, keyArgs[1].options),
                     getCacheKey(keyArgs[2].text, keyArgs[2].options) >>
  /\ UNCHANGED <<keyArgs, pipeVars, faultVars, outVars, previous, creditVars, audioVars, cacheVars, queueVars, jobVars>>

KeyNext == ComputeKeys

KeySpec == KeyInit /\ [][KeyNext]_vars

\* The words of a text: its maximal runs of non-whitespace characters.
RECURSIVE SplitWords(_, _)
SplitWords(t, cur) ==
  IF t = <<>> THEN (IF cur = <<>> THEN <<>> ELSE <<cur>>)
  ELSE IF IsSpace(Head(t))
       THEN (IF cur = <<>> THEN <<>> ELSE <<cur>>) \o SplitWords(Tail(t), <<>>)
       ELSE SplitWords(Tail(t), Append(cur, Head(t)))

SameLetter(c, d) == c = d \/ {c, d} = {"a", "A"} \/ {c, d} = {"b", "B"}

\* Equal after trimming, whitespace collapsing and lowercasing: the same
\* words, letter by letter up to case.
SameNormalizedText(a, b) ==
  LET wa == SplitWords(a, <<>>)
      wb == SplitWords(b, <<>>)
  IN  /\ Len(wa) = Len(wb)
      /\ \A w \in 1..Len(wa) :
           /\ Len(wa[w]) = Len(wb[w])
           /\ \A c \in 1..Len(wa[w]) : SameLetter(wa[w][c], wb[w][c])

\* The value an option has for the request: what was passed, else the default.
OptionValue(options, f) ==
  IF f \in DOMAIN options THEN options[f] ELSE DEFAULT_TTS_OPTIONS[f]

SameKeyOptions(o1, o2) ==
  \A f \in {"languageCode", "voiceName", "audioEncoding", "pitch"} :
    OptionValue(o1, f) = OptionValue(o2, f)

\* C11: getCacheKey gives two inputs the same key exactly when their texts
\* are equal after trimming, whitespace collapsing and lowercasing and
\* their language, voice, encoding and pitch are equal; the speaking rate
\* plays no part.
CacheKeyIdentity ==
  cacheKeys # <<>> =>
    ( cacheKeys[1] = cacheKeys[2]
      <=> /\ SameNormalizedText(keyArgs[1].text, keyArgs[2].text)
          /\ SameKeyOptions(keyArgs[1].options, keyArgs[2].options) )

\* C11 witness: two texts that differ in case and spacing, asked for at
\* different speaking rates, got the same key.
SameKeyForVariants ==
  /\ cacheKeys # <<>>
  /\ cacheKeys[1] = cacheKeys[2]
  /\ Len(keyArgs[1].text) # Len(keyArgs[2].text)
  /\ \E c \in 1..Len(keyArgs[1].text) : keyArgs[1].text[c] = "A"
  /\ "speakingRate" \in DOMAIN keyArgs[1].options
  /\ "speakingRate" \notin DOMAIN keyArgs[2].options
  /\ cacheKeys[1][1] # <<>>

\* ------------------------------------ generateTTS calls of concurrent jobs

MAX_CONCURRENT_JOBS == 3

\* generateTTS calls each job makes.
MaxCallsEach == 2

\* Cue texts of the jobs: two that normalize to the same text, one other.
CallTexts == { <<"a">>, <<" ", "A", " ">>, <<"a", " ", "b">> }

\* What generateTTSSegments passes: nothing, or the rate of a re-render.
CallOptions == { <<>>, [speakingRate |-> <<3, 2>>] }

CacheKeySet ==
  { getCacheKey(cleanTextForTTS(t), MergeDefaults(o)) :
      t \in CallTexts, o \in CallOptions }

NoKey == <<>>

CacheInit ==
  /\ callers = [c \in 1..MAX_CONCURRENT_JOBS |->
                  [cpc |-> "idle", key |-> NoKey, made |-> 0, cacheHit |-> FALSE]]
  /\ cacheFiles = [key \in CacheKeySet |-> 0]
  /\ synthCount = [key \in CacheKeySet |-> 0]
  /\ PipeIdle /\ FilesIdle /\ KeyIdle /\ QueueIdle /\ JobIdle /\ CreditIdle /\ AudioIdle

\* generateTTS up to the cache lookup: clean the text, merge the options,
\* compute the key.
StartCall(c) ==
  /\ callers[c].cpc = "idle"
  /\ callers[c].made < MaxCallsEach
  /\ \E text \in CallTexts, options \in CallOptions :
       callers' = [callers EXCEPT
         ![c].cpc = "lookup",
         ![c].key = getCacheKey(cleanTextForTTS(text), MergeDefaults(options))]
  /\ UNCHANGED <<cacheFiles, synthCount, pipeVars, faultVars, outVars, previous, creditVars, audioVars, keyVars, queueVars, jobVars>>

\* await getCachedAudio(cacheKey): a hit converts the cached file and
\* returns { cacheHit: true }; a miss goes on to the synthesis request.
LookupCache(c) ==
  /\ callers[c].cpc = "lookup"
  /\ callers' =
       IF cacheFiles[callers[c].key] # 0
       THEN [callers EXCEPT ![c].cpc = "idle", ![c].key = NoKey,
                            ![c].made = @ + 1, ![c].cacheHit = TRUE]
       ELSE [callers EXCEPT ![c].cpc = "synth"]
  /\ UNCHANGED <<cacheFiles, synthCount, pipeVars, faultVars, outVars, previous, creditVars, audioVars, keyVars, queueVars, jobVars>>

\* await client.synthesizeSpeech(request) answers with the audio.
Synthesize(c) ==
  /\ callers[c].cpc = "synth"
  /\ synthCount' = [synthCount EXCEPT ![callers[c].key] = @ + 1]
  /\ callers' = [callers EXCEPT ![c].cpc = "save"]
  /\ UNCHANGED <<cacheFiles, pipeVars, faultVars, outVars, previous, creditVars, audioVars, keyVars, queueVars, jobVars>>

\* await client.synthesizeSpeech(request) rejects: generateTTS throws.
SynthesizeRejects(c) ==
  /\ callers[c].cpc = "synth"
  /\ synthCount' = [synthCount EXCEPT ![callers[c].key] = @ + 1]
  /\ callers' = [callers EXCEPT ![c].cpc = "idle", ![c].key = NoKey,
                                ![c].made = @ + 1, ![c].cacheHit = FALSE]
  /\ UNCHANGED <<cacheFiles, pipeVars, faultVars, outVars, previous, creditVars, audioVars, keyVars, queueVars, jobVars>>

\* await saveCachedAudio(cacheKey, audioBuffer), fs.writeFile on the
\* entry's path, then the conversion and { cacheHit: false }.
SaveAndReturn(c) ==
  /\ callers[c].cpc = "save"
  /\ cacheFiles' = [cacheFiles EXCEPT ![callers[c].key] = c]
  /\ callers' = [callers EXCEPT ![c].cpc = "idle", ![c].key = NoKey,
                                ![c].made = @ + 1, ![c].cacheHit = FALSE]
  /\ UNCHANGED <<synthCount, pipeVars, faultVars, outVars, previous, creditVars, audioVars, keyVars, queueVars, jobVars>>

CacheNext ==
  \E c \in 1..MAX_CONCURRENT_JOBS :
    \/ StartCall(c)
    \/ LookupCache(c)
    \/ Synthesize(c)
    \/ SynthesizeRejects(c)
    \/ SaveAndReturn(c)

CacheSpec == CacheInit /\ [][CacheNext]_vars

\* C12: once a call for a key has completed and left its entry in the
\* cache, the synthesis collaborator is not invoked for that key again
\* (so it is invoked at most once per key), and every lookup of the key is
\* served from the cache with cacheHit = true.
ServedFromCacheOnceCached ==
  [][\A key \in DOMAIN cacheFiles :
       cacheFiles[key] # 0 =>
         /\ synthCount'[key] = synthCount[key]
         /\ \A c \in DOMAIN callers :
              (callers[c].cpc = "lookup" /\ callers[c].key = key
                 /\ callers'[c].cpc # "lookup") => callers'[c].cacheHit]_vars

\* C13: a cache entry, once written, is neither overwritten nor removed.
CacheEntriesImmutable ==
  [][\A key \in DOMAIN cacheFiles :
       cacheFiles[key] # 0 => cacheFiles'[key] = cacheFiles[key]]_vars

\* ------------------------------------------------------------ the job queue

\* Jobs created in one run of the queue.
MaxJobs == 4

QueueInit ==
  /\ processingCount = 0
  /\ jobQueue = <<>>
  /\ jobStatus = [j \in 1..MaxJobs |-> "none"]
  /\ awaiting = {}
  /\ running = {}
  /\ started = {}
  /\ progressSent = {}
  /\ PipeIdle /\ FilesIdle /\ KeyIdle /\ CacheIdle /\ JobIdle /\ CreditIdle /\ AudioIdle

\* processNextJob up to its await: return if the limit is reached or the
\* queue is empty, else shift the head and ask for the pending jobs.
processNextJob(count, queue, waiting) ==
  IF count >= MAX_CONCURRENT_JOBS \/ queue = <<>>
  THEN jobQueue' = queue /\ awaiting' = waiting
  ELSE jobQueue' = Tail(queue) /\ awaiting' = waiting \cup {Head(queue)}

\* createJob: the job record is inserted as pending, its id is queued and
\* processNextJob is called without being awaited.
createJob ==
  \E j \in 1..MaxJobs :
    /\ jobStatus[j] = "none"
    /\ \A h \in 1..(j - 1) : jobStatus[h] # "none"
    /\ jobStatus' = [jobStatus EXCEPT ![j] = "pending"]
    /\ processNextJob(processingCount, Append(jobQueue, j), awaiting)
    /\ UNCHANGED <<processingCount, running, started, progressSent, pipeVars, faultVars, outVars, previous, creditVars, audioVars, keyVars, cacheVars, jobVars>>

\* processNextJob after its await: a job that is no longer pending is
\* skipped; otherwise processingCount++ and processJob(jobId) is started.
processNextJobResumes(j) ==
  /\ j \in awaiting
  /\ IF jobStatus[j] = "pending"
     THEN /\ processingCount' = processingCount + 1
          /\ running' = running \cup {j}
          /\ awaiting' = awaiting \ {j}
          /\ UNCHANGED jobQueue
     ELSE /\ processNextJob(processingCount, jobQueue, awaiting \ {j})
          /\ UNCHANGED <<processingCount, running>>
  /\ UNCHANGED <<jobStatus, started, progressSent, pipeVars, faultVars, outVars, previous, creditVars, audioVars, keyVars, cacheVars, jobVars>>

\* The DELETE route: the deleteJob mutation removes the record of a job,
\* whatever its status.
deleteJob(j) ==
  /\ jobStatus[j] \in {"pending", "processing", "completed", "failed"}
  /\ jobStatus' = [jobStatus EXCEPT ![j] = "deleted"]
  /\ UNCHANGED <<processingCount, jobQueue, awaiting, running, started, progressSent,
                 pipeVars, faultVars, outVars, previous, creditVars, audioVars, keyVars, cacheVars, jobVars>>

\* processJob from its start to updateJobStatus(jobId, 'processing', 0);
\* it returns at once when the job is not among the pending ones.
processJobStarts(j) ==
  /\ j \in running \ started
  /\ IF jobStatus[j] = "pending"
     THEN /\ jobStatus' = [jobStatus EXCEPT ![j] = "processing"]
          /\ started' = started \cup {j}
          /\ UNCHANGED running
     ELSE /\ running' = running \ {j}
          /\ UNCHANGED <<jobStatus, started>>
  /\ UNCHANGED <<processingCount, jobQueue, awaiting, progressSent,
                 pipeVars, faultVars, outVars, previous, creditVars, audioVars, keyVars, cacheVars, jobVars>>

\* The progress callback that processJob hands to generateTTSWithTiming:
\* the generator calls it without awaiting it, so its updateJobStatus
\* (jobId, 'processing', ...) is sent and processJob goes on.
onProgress(j) ==
  /\ j \in started
  /\ j \notin progressSent
  /\ progressSent' = progressSent \cup {j}
  /\ UNCHANGED <<processingCount, jobQueue, jobStatus, awaiting, running, started,
                 pipeVars, faultVars, outVars, previous, creditVars, audioVars, keyVars, cacheVars, jobVars>>

\* The updateJobStatus mutation of a progress update runs: it patches
\* status to 'processing' whatever the record holds, and throws "Job not
\* found" (logged by the wrapper) when the record is gone.
progressUpdate(j) ==
  /\ j \in progressSent
  /\ progressSent' = progressSent \ {j}
  /\ jobStatus' = IF jobStatus[j] = "deleted"
                  THEN jobStatus
                  ELSE [jobStatus EXCEPT ![j] = "processing"]
  /\ UNCHANGED <<processingCount, jobQueue, awaiting, running, started,
                 pipeVars, faultVars, outVars, previous, creditVars, audioVars, keyVars, cacheVars, jobVars>>

\* processJob ends: updateJobStatus with 'completed' or 'failed' patches
\* the record, decrements processingCount and calls processNextJob; when
\* the record is gone the mutation throws and the wrapper only logs it.
processJobEnds(j) ==
  /\ j \in started
  /\ running' = running \ {j}
  /\ started' = started \ {j}
  /\ IF jobStatus[j] = "processing"
     THEN /\ \E status \in {"completed", "failed"} :
               jobStatus' = [jobStatus EXCEPT ![j] = status]
          /\ processingCount' = processingCount - 1
          /\ processNextJob(processingCount - 1, jobQueue, awaiting)
     ELSE UNCHANGED <<jobStatus, processingCount, jobQueue, awaiting>>
  /\ UNCHANGED <<progressSent, pipeVars, faultVars, outVars, previous, creditVars, audioVars, keyVars, cacheVars, jobVars>>

QueueNext ==
  \/ createJob
  \/ \E j \in 1..MaxJobs :
       \/ processNextJobResumes(j)
       \/ deleteJob(j)
       \/ processJobStarts(j)
       \/ onProgress(j)
       \/ progressUpdate(j)
       \/ processJobEnds(j)

QueueSpec == QueueInit /\ [][QueueNext]_vars

\* C14: never more than MAX_CONCURRENT_JOBS jobs are being processed at
\* the same time, and processingCount never exceeds MAX_CONCURRENT_JOBS.
ConcurrencyLimit ==
  /\ Cardinality(running) <= MAX_CONCURRENT_JOBS
  /\ processingCount <= MAX_CONCURRENT_JOBS

\* ------------------------------------- faults inside generateTTSWithTiming

\* The trim fallback found a shorter file, removed the original, and
\* fs.rename threw: the catch removes the trimmed file as well.
ReplaceFails ==
  /\ pc = "fit" /\ lpc = "after"
  /\ actualDuration - expectedDuration > syncThreshold
  /\ \E trimmedDuration \in DurVals : trimmedDuration < actualDuration
  /\ lostFiles' = lostFiles \cup {i}
  /\ PushResult(FittedResult(actualDuration))
  /\ UNCHANGED <<segments, outcome, tempDir, asmVars>>

\* One of the files pushed for concatenation was written with no bytes.
EmptyPieceWritten ==
  /\ pc = "assemble" /\ apc = "end"
  /\ emptyFiles = {}
  /\ \E p \in 1..Len(audioWithSilence) : emptyFiles' = {p}
  /\ UNCHANGED pipeVars

\* insertSilence threw while the initial, an alignment or a gap silence
\* was being written.
SilenceFails ==
  /\ pc = "assemble"
  /\ \/ apc = "initial" /\ NeedsInitialSilence(segments)
     \/ apc = "drift" /\ segments[k].start - actualTimelinePosition > Epsilon
     \/ /\ apc = "gap"
        /\ LET gapNeeded == GapNeeded(segments[k + 1].start, actualTimelinePosition)
           IN  /\ gapNeeded > Epsilon
               /\ AdjustedGap(gapNeeded, DebtToPay(timingDebt, gapNeeded)) > Epsilon
  /\ outcome' = "error"
  /\ thrown' = Error("silence generation", 0)
  /\ pc' = "cleanup"
  /\ UNCHANGED <<segments, tempDir, fitVars, asmVars>>

\* concatenateAudioFiles threw on a validated list.
ConcatenateFails ==
  /\ pc = "assemble" /\ apc = "end"
  /\ \A p \in 1..Len(audioWithSilence) : StatPiece(p) # "missing"
  /\ ValidFiles(Len(audioWithSilence)) # <<>>
  /\ outcome' = "error"
  /\ thrown' = Error("concatenation", 0)
  /\ pc' = "cleanup"
  /\ UNCHANGED <<segments, tempDir, fitVars, asmVars>>

\* --------------------------------------------------- processJob for one job

\* Credits are counted in halves: a cache miss costs 2, a cache hit 1.
CREDIT_COST_CACHE_MISS == 2
CREDIT_COST_CACHE_HIT == 1

\* Cues in the subtitle file of the job.
MaxJobCues == 2

\* The user's balance when the job starts.
BalanceVals == {2, 20}

JobShapeLists == UNION { [1..n -> CueShapes] : n \in 0..MaxJobCues }

JobInit ==
  /\ \E shapes \in JobShapeLists :
       \E f \in Perms(Len(shapes)) :
         segments = Permute(CuesFrom(shapes, 0), f)
  /\ pc = "start"
  /\ outcome = "running"
  /\ tempDir = FALSE
  /\ i = 0 /\ lpc = "loop" /\ attempts = 0 /\ ttsCalls = 0
  /\ currentRate = baseSpeakingRate
  /\ actualDuration = 0 /\ expectedDuration = 0
  /\ gapExtensionApplied = FALSE
  /\ results = <<>>
  /\ k = 0 /\ apc = "initial"
  /\ audioWithSilence = <<>>
  /\ timingDebt = 0
  /\ actualTimelinePosition = 0
  /\ debtToPay = 0
  /\ FilesIdle
  /\ pj = [ pc |-> "query", job |-> FALSE, reservedAmount |-> 0,
            creditsReserved |-> FALSE, caught |-> NoError,
            actualCreditsUsed |-> 0 ]
  /\ \E balance \in BalanceVals :
       db = [ job |-> [exists |-> TRUE, status |-> "pending", error |-> NoError,
                       ttsAudio |-> FALSE, mergedAudio |-> FALSE],
              credits |-> [balance |-> balance, reservedCredits |-> 0],
              opening |-> balance,      \* the balance before the job
              finalized |-> 0 ]         \* finalizeCredits mutations applied
  /\ KeyIdle /\ CacheIdle /\ QueueIdle /\ CreditIdle /\ AudioIdle

\* The updateJobStatus wrapper: the mutation patches the record, or throws
\* "Job not found" and the wrapper logs it.
updateJobStatus(d, status, error) ==
  IF d.job.exists
  THEN [d EXCEPT !.job.status = status,
                 !.job.error = IF error = NoError THEN @ ELSE error]
  ELSE d

\* The updateJobFiles wrapper, for one of ttsAudio and mergedAudio.
updateJobFiles(d, file) ==
  IF d.job.exists THEN [d EXCEPT !.job[file] = TRUE] ELSE d

\* The finalizeCredits mutation: Math.max(0, reservedCredits -
\* reservedAmount), and the balance less actualAmount unless released.
finalizeCredits(d, reservedAmount, actualAmount, release) ==
  [d EXCEPT
     !.credits.reservedCredits = Max(0, @ - reservedAmount),
     !.credits.balance = IF release THEN @ ELSE @ - actualAmount,
     !.finalized = @ + 1]

\* The DELETE route: deleteJobForUser removes the job's record.
deleteJobForUser ==
  /\ db.job.exists
  /\ db' = [db EXCEPT !.job.exists = FALSE]
  /\ UNCHANGED <<pj, pipeVars, faultVars, outVars, previous, creditVars, audioVars, keyVars, cacheVars, queueVars>>

\* processJob, lines 459-463: find the job among the pending ones.
FindPendingJob ==
  /\ pj.pc = "query"
  /\ pj' = IF db.job.exists /\ db.job.status = "pending"
           THEN [pj EXCEPT !.pc = "reserve", !.job = TRUE]
           ELSE [pj EXCEPT !.pc = "done"]
  /\ UNCHANGED <<db, pipeVars, faultVars, outVars, previous, creditVars, audioVars, keyVars, cacheVars, queueVars>>

\* Lines 472-487: status 'processing', one credit estimated per cue, and
\* reserveCreditsForJob (false when the mutation throws).
ReserveCredits ==
  /\ pj.pc = "reserve"
  /\ LET estimatedCredits == Len(segments) * CREDIT_COST_CACHE_MISS
         d == updateJobStatus(db, "processing", NoError)
         available == db.credits.balance - db.credits.reservedCredits
     IN  IF available >= estimatedCredits
         THEN /\ db' = [d EXCEPT !.credits.reservedCredits = @ + estimatedCredits]
              /\ pj' = [pj EXCEPT !.creditsReserved = TRUE,
                                  !.reservedAmount = estimatedCredits,
                                  !.pc = "record"]
         ELSE /\ db' = d
              /\ pj' = [pj EXCEPT !.reservedAmount = estimatedCredits,
                                  !.caught = Error("failed to reserve credits", 0),
                                  !.pc = "catch"]
  /\ UNCHANGED <<pipeVars, faultVars, outVars, previous, creditVars, audioVars, keyVars, cacheVars, queueVars>>

\* Lines 489-495: the updateJobStatus mutation called directly, so that
\* "Job not found" is thrown into the catch.
RecordReservation ==
  /\ pj.pc = "record"
  /\ pj' = IF db.job.exists
           THEN [pj EXCEPT !.pc = "refresh"]
           ELSE [pj EXCEPT !.caught = Error("job not found", 0), !.pc = "catch"]
  /\ UNCHANGED <<db, pipeVars, faultVars, outVars, previous, creditVars, audioVars, keyVars, cacheVars, queueVars>>

\* Lines 501-516: job is read again from getUserJobs; undefined throws.
RefreshJob ==
  /\ pj.pc = "refresh"
  /\ pj' = IF db.job.exists
           THEN [pj EXCEPT !.pc = "tts"]
           ELSE [pj EXCEPT !.job = FALSE,
                           !.caught = Error("job not found", 0), !.pc = "catch"]
  /\ UNCHANGED <<db, pipeVars, faultVars, outVars, previous, creditVars, audioVars, keyVars, cacheVars, queueVars>>

InTts == pj.pc = "tts"

\* The entry noted when the trim fallback of the current cue fails.
TrimFailure == [cue |-> i, untrimmed |-> actualDuration]

\* The empty branch pushes its result with cacheHit: true.
EmptyCacheHit == cacheHitCues' = cacheHitCues \cup {i}

\* if (attempts === 0) segmentCacheHit = result.cacheHit: the first call of
\* generateTTS for the cue found the text in the cache, or did not.
FirstAttemptCacheHit ==
  IF attempts = 0
  THEN \E cacheHit \in BOOLEAN :
         cacheHitCues' = IF cacheHit THEN cacheHitCues \cup {i} ELSE cacheHitCues
  ELSE UNCHANGED cacheHitCues

TotalCredits_Surcharge(cacheHits, cacheMisses) ==
  cacheHits * (CREDIT_COST_CACHE_MISS + CREDIT_COST_CACHE_HIT)
    + cacheMisses * CREDIT_COST_CACHE_MISS

\* creditUsage.totalCredits, lines 701-706.
TotalCredits(cacheHits, cacheMisses) ==
  cacheHits * CREDIT_COST_CACHE_HIT + cacheMisses * CREDIT_COST_CACHE_MISS

TtsReturns_Early ==
  /\ InTts
  /\ LET cacheHits == Cardinality({r \in 1..Len(results) : r \in cacheHitCues})
         cacheMisses == Cardinality({r \in 1..Len(results) : r \notin cacheHitCues})
     IN
       pj' = IF db.job.exists
             THEN [pj EXCEPT !.actualCreditsUsed =
                               TotalCredits(cacheHits, cacheMisses),
                             !.pc = "mix"]
             ELSE [pj EXCEPT !.actualCreditsUsed =
                               TotalCredits(cacheHits, cacheMisses),
                             !.job = FALSE,
                             !.caught = Error("job not found", 0),
                             !.pc = "catch"]
  /\ db' = updateJobFiles(db, "ttsAudio")
  /\ UNCHANGED <<pipeVars, faultVars, outVars, previous, creditVars, audioVars, keyVars, cacheVars, queueVars>>

\* Lines 517-538: generateTTSWithTiming returned its credit usage; the
\* speech track is recorded and job is read again.
TtsReturns ==
  /\ InTts /\ pc = "done" /\ outcome = "ok"
  /\ LET cacheHits == Cardinality({r \in 1..Len(results) : r \in cacheHitCues})
         cacheMisses == Cardinality({r \in 1..Len(results) : r \notin cacheHitCues})
     IN
       pj' = IF db.job.exists
             THEN [pj EXCEPT !.actualCreditsUsed =
                               TotalCredits(cacheHits, cacheMisses),
                             !.pc = "mix"]
             ELSE [pj EXCEPT !.actualCreditsUsed =
                               TotalCredits(cacheHits, cacheMisses),
                             !.job = FALSE,
                             !.caught = Error("job not found", 0),
                             !.pc = "catch"]
  /\ db' = updateJobFiles(db, "ttsAudio")
  /\ UNCHANGED <<pipeVars, faultVars, outVars, previous, creditVars, audioVars, keyVars, cacheVars, queueVars>>

\* generateTTSWithTiming threw: the error reaches the catch of processJob.
TtsThrows ==
  /\ InTts /\ pc = "done" /\ outcome = "error"
  /\ pj' = [pj EXCEPT !.caught = thrown, !.pc = "catch"]
  /\ UNCHANGED <<db, pipeVars, faultVars, outVars, previous, creditVars, audioVars, keyVars, cacheVars, queueVars>>

\* Lines 540-611: applySidechainCompression resolved; the merged track is
\* recorded and uploaded.
MixAudio ==
  /\ pj.pc = "mix"
  /\ db' = updateJobFiles(db, "mergedAudio")
  /\ pj' = [pj EXCEPT !.pc = "finalize"]
  /\ UNCHANGED <<pipeVars, faultVars, outVars, previous, creditVars, audioVars, keyVars, cacheVars, queueVars>>

MixFails_Fallback ==
  /\ pj.pc = "mix"
  /\ db' = updateJobFiles(db, "mergedAudio")
  /\ pj' = [pj EXCEPT !.caught = Error("ffmpeg", 0), !.pc = "finalize"]
  /\ UNCHANGED <<pipeVars, faultVars, outVars, previous, creditVars, audioVars, keyVars, cacheVars, queueVars>>

\* applySidechainCompression rejected with "FFmpeg error: ...".
MixFails ==
  /\ pj.pc = "mix"
  /\ pj' = [pj EXCEPT !.caught = Error("ffmpeg", 0), !.pc = "catch"]
  /\ UNCHANGED <<db, pipeVars, faultVars, outVars, previous, creditVars, audioVars, keyVars, cacheVars, queueVars>>

\* Lines 613-626: the credits are finalized with the amount used and the
\* job is marked completed.
FinalizeAndComplete ==
  /\ pj.pc = "finalize"
  /\ db' = updateJobStatus(
             finalizeCredits(db, pj.reservedAmount, pj.actualCreditsUsed, FALSE),
             "completed", NoError)
  /\ pj' = [pj EXCEPT !.pc = "done"]
  /\ UNCHANGED <<pipeVars, faultVars, outVars, previous, creditVars, audioVars, keyVars, cacheVars, queueVars>>

FailedJob_NoMessage(d, caught) == updateJobStatus(d, "failed", NoError)

\* updateJobStatus(jobId, 'failed', undefined, error.message)
FailedJob(d, caught) == updateJobStatus(d, "failed", caught)

\* The catch of processJob, lines 627-650: release what was reserved
\* (reading job.userId, which throws when job is undefined), then mark the
\* job failed.
CatchError ==
  /\ pj.pc = "catch"
  /\ IF pj.creditsReserved /\ pj.reservedAmount > 0
     THEN IF pj.job
          THEN /\ db' = FailedJob(finalizeCredits(db, pj.reservedAmount, 0, TRUE),
                                  pj.caught)
               /\ pj' = [pj EXCEPT !.pc = "done"]
          ELSE /\ pj' = [pj EXCEPT !.pc = "crashed"]
               /\ UNCHANGED db
     ELSE /\ db' = FailedJob(db, pj.caught)
          /\ pj' = [pj EXCEPT !.pc = "done"]
  /\ UNCHANGED <<pipeVars, faultVars, outVars, previous, creditVars, audioVars, keyVars, cacheVars, queueVars>>

JobNext ==
  \/ deleteJobForUser
  \/ FindPendingJob
  \/ ReserveCredits
  \/ RecordReservation
  \/ RefreshJob
  \/ InTts /\ Begin /\ UNCHANGED restVars
  \/ InTts /\ FitEmptySegment /\ EmptyCacheHit
       /\ UNCHANGED <<lostFiles, emptyFiles, trimFailed, trimSaved, outVars, otherVars>>
  \/ InTts /\ RenderAttempt /\ FirstAttemptCacheHit
       /\ UNCHANGED <<lostFiles, emptyFiles, trimFailed, trimSaved, outVars, otherVars>>
  \/ InTts /\ SynthesisFails /\ UNCHANGED <<outputTrack, faultVars, otherVars>>
  \/ InTts /\ KeepSegment /\ UNCHANGED restVars
  \/ InTts /\ TrimTrailingSilence /\ UNCHANGED restVars
  \/ InTts /\ TrimFails /\ trimFailed' = trimFailed \cup {TrimFailure}
       /\ UNCHANGED <<lostFiles, emptyFiles, cacheHitCues, trimSaved, outVars, otherVars>>
  \/ InTts /\ ReplaceFails /\ trimFailed' = trimFailed \cup {TrimFailure}
       /\ UNCHANGED <<emptyFiles, cacheHitCues, trimSaved, outVars, otherVars>>
  \/ InTts /\ InitialSilence /\ UNCHANGED <<outputTrack, faultVars, otherVars>>
  \/ InTts /\ DriftCheck /\ UNCHANGED restVars
  \/ InTts /\ AppendSegment /\ UNCHANGED restVars
  \/ InTts /\ GapToNext /\ UNCHANGED restVars
  \/ InTts /\ SilenceFails /\ UNCHANGED <<outputTrack, faultVars, otherVars>>
  \/ InTts /\ EmptyPieceWritten
       /\ UNCHANGED <<lostFiles, trimFailed, cacheHitCues, trimSaved, outVars, otherVars>>
  \/ InTts /\ Concatenate /\ UNCHANGED <<faultVars, otherVars>>
  \/ InTts /\ ConcatenateFails /\ UNCHANGED <<outputTrack, faultVars, otherVars>>
  \/ InTts /\ Cleanup /\ UNCHANGED restVars
  \/ TtsReturns
  \/ TtsThrows
  \/ MixAudio
  \/ MixFails
  \/ FinalizeAndComplete
  \/ CatchError

JobSpec == JobInit /\ [][JobNext]_vars

\* C15: once synthesis has failed for a cue, no further cue is rendered, no
\* speech track is assembled or recorded, no merged track is recorded, and
\* when processJob has ended the job's record has status failed and
\* carries the error message.
SynthesisFailed == thrown.kind = "synthesis"

BadPieces ==
  { p \in 1..Len(audioWithSilence) : StatPiece(p) # "ok" }

\* C16: a run that reaches the end of the assembly pass with a missing or
\* zero-length piece fails, produces no speech track, and its error names
\* the cue of an affected piece.
BadPieceIsFatal ==
  (pc \in {"cleanup", "done"} /\ apc = "end" /\ BadPieces # {})
    => /\ outcome = "error"
       /\ outputTrack = <<>>
       /\ thrown.cue \in { audioWithSilence[p].cue : p \in BadPieces }

\* C17: a cue whose trim fallback failed keeps its file, at the untrimmed
\* duration, and has a result with the untrimmed actualDuration.
TrimFailureKeepsCue ==
  \A t \in trimFailed :
    /\ t.cue \notin lostFiles
    /\ Len(results) >= t.cue
    /\ results[t.cue].actualDuration = t.untrimmed
    /\ results[t.cue].fileDur = t.untrimmed

\* C18: once the mix step has failed no merged track is recorded, the
\* error is handled by the catch, and when processJob has ended the job's
\* record has status failed.
MixFailed == pj.caught.kind = "ffmpeg"

ReservationFinalizedOnce ==
  /\ db # <<>> => db.finalized <= 1
  /\ (pj # <<>> /\ pj.creditsReserved /\ pj.reservedAmount > 0
        /\ pj.pc \in {"done", "crashed"})
       => /\ db.finalized = 1
          /\ db.credits.reservedCredits = 0
          /\ db.credits.balance =
               db.opening - (IF pj.caught = NoError
                             THEN pj.actualCreditsUsed ELSE 0)

\* What the cues with text cost: a cache hit or a cache miss for each.
SpokenCuesCredits ==
  TotalCredits(
    Cardinality({c \in 1..N : ~IsEmptyText(segments[c]) /\ c \in cacheHitCues}),
    Cardinality({c \in 1..N : ~IsEmptyText(segments[c]) /\ c \notin cacheHitCues}))

Rerun_KeepLedger ==
  /\ pc = "done" /\ outcome = "ok" /\ previous = <<>>
  /\ previous' = [ pieces |-> audioWithSilence, timingDebt |-> timingDebt,
                   actualTimelinePosition |-> actualTimelinePosition ]
  /\ tempDir' = TRUE
  /\ outcome' = "running"
  /\ pc' = "assemble"
  /\ k' = 0 /\ apc' = "initial"
  /\ audioWithSilence' = <<>>
  /\ timingDebt' = timingDebt
  /\ actualTimelinePosition' = 0
  /\ debtToPay' = 0
  /\ segments' = SortByStart(segments)
  /\ UNCHANGED fitVars

\* generateTTSWithTiming is called again with the same cue list, and the
\* renders measure as they did before, so that generateTTSSegments returns
\* the same results: the temp directory is made again, the list (already
\* sorted in place) is sorted again, and the assembly pass starts from its
\* own fresh locals (lines 726-728).  What the first run assembled is kept
\* for comparison.
Rerun ==
  /\ pc = "done" /\ outcome = "ok" /\ previous = <<>>
  /\ previous' = [ pieces |-> audioWithSilence, timingDebt |-> timingDebt,
                   actualTimelinePosition |-> actualTimelinePosition ]
  /\ tempDir' = TRUE
  /\ outcome' = "running"
  /\ pc' = "assemble"
  /\ k' = 0 /\ apc' = "initial"
  /\ audioWithSilence' = <<>>
  /\ timingDebt' = 0
  /\ actualTimelinePosition' = 0
  /\ debtToPay' = 0
  /\ segments' = SortByStart(segments)
  /\ UNCHANGED fitVars

RerunNext ==
  \/ Begin /\ UNCHANGED restVars
  \/ FitEmptySegment /\ UNCHANGED restVars
  \/ RenderAttempt /\ UNCHANGED restVars
  \/ SynthesisFails /\ UNCHANGED <<outputTrack, faultVars, otherVars>>
  \/ KeepSegment /\ UNCHANGED restVars
  \/ TrimTrailingSilence /\ UNCHANGED restVars
  \/ TrimFails /\ UNCHANGED restVars
  \/ InitialSilence /\ UNCHANGED <<outputTrack, faultVars, otherVars>>
  \/ DriftCheck /\ UNCHANGED restVars
  \/ AppendSegment /\ UNCHANGED restVars
  \/ GapToNext /\ UNCHANGED restVars
  \/ Concatenate /\ UNCHANGED <<faultVars, otherVars>>
  \/ Cleanup /\ UNCHANGED restVars
  \/ Rerun /\ UNCHANGED <<faultVars, outVars, keyVars, cacheVars, queueVars, jobVars, creditVars, audioVars>>

RerunSpec == Init /\ [][RerunNext]_vars

\* Sequence a is an initial part of sequence b.
IsPrefix(a, b) == Len(a) <= Len(b) /\ SubSeq(b, 1, Len(a)) = a

EmptyListIsFatal ==
  (/\ pc \in {"cleanup", "done"}
   /\ \/ N = 0
      \/ apc = "end" /\ ValidFiles(Len(audioWithSilence)) = <<>>)
    => /\ outcome = "error"
       /\ thrown.kind \in {"no segment files", "no valid audio files",
                           "missing or invalid audio file"}
       /\ outputTrack = <<>>

\* C23 witness: the only piece of the run was an empty file, and the run
\* has ended with the error of the empty list.
FailedOnEmptyList ==
  /\ pc = "done" /\ outcome = "error"
  /\ Len(audioWithSilence) = 1 /\ emptyFiles = {1}
  /\ thrown.kind = "no valid audio files"
  /\ outputTrack = <<>>

\* The place in audioWithSilence of the last speech piece pushed.
LastSpeech ==
  CHOOSE a \in 1..Len(audioWithSilence) :
    /\ audioWithSilence[a].kind = "speech"
    /\ \A b \in (a + 1)..Len(audioWithSilence) : audioWithSilence[b].kind # "speech"

\* The silence pushed since the last speech piece.
SilenceSinceSpeech ==
  SumDur(SubSeq(audioWithSilence, LastSpeech + 1, Len(audioWithSilence)))

\* C24: when the gap step before cue k paid back r of the ledger, the
\* silence that separates the speech of cue k-1 from the speech of cue k
\* lasts gapNeeded - r.
RepaymentShortensSilence ==
  (pc = "assemble" /\ apc = "segment" /\ k > 1 /\ debtToPay > 0)
    => LET positionAfter == audioWithSilence[LastSpeech].at
                              + results[k - 1].actualDuration
           gapNeeded == GapNeeded(segments[k].start, positionAfter)
       IN  SilenceSinceSpeech = gapNeeded - debtToPay

\* C25: after the drift check of a cue the ledger is, within epsilon, the
\* time by which the position differs from the cue's nominal start, and it
\* is 0 when the speech starts exactly at the nominal start.
DebtIsDeviation ==
  (pc = "assemble" /\ apc = "segment")
    => LET deviation == actualTimelinePosition - segments[k].start
       IN  /\ Abs(timingDebt - Abs(deviation)) <= Epsilon
           /\ deviation = 0 => timingDebt = 0

\* C26: the speech piece of a cue is never appended at a position more
\* than epsilon before the cue's nominal start, and a drift check that
\* finds the position more than epsilon short of the nominal start leaves
\* it exactly at the nominal start.
NoEarlySpeech ==
  [][/\ (pc' = "assemble" /\ apc' = "segment")
          => actualTimelinePosition' >= segments'[k'].start - Epsilon
     /\ \A a \in 1..Len(audioWithSilence') :
          audioWithSilence'[a].kind = "speech"
            => audioWithSilence'[a].at
                 >= segments'[audioWithSilence'[a].cue].start - Epsilon
     /\ (/\ pc = "assemble" /\ apc = "drift" /\ apc' = "segment"
         /\ segments[k].start - actualTimelinePosition > Epsilon)
          => actualTimelinePosition' = segments[k].start]_vars

\* C26 witness: the third cue's speech was appended at its nominal start
\* after an overflow had been booked, part of it paid back at the gap, and
\* the position aligned.
SpeechAlignedAfterRepayment ==
  /\ pc = "assemble" /\ apc = "end" /\ k = 3
  /\ debtToPay > 0
  /\ audioWithSilence[Len(audioWithSilence)].kind = "speech"
  /\ audioWithSilence[Len(audioWithSilence)].at = segments[3].start
  /\ audioWithSilence[Len(audioWithSilence) - 1].kind = "align"
  /\ \E a \in 1..Len(audioWithSilence) :
       /\ audioWithSilence[a].kind = "speech"
       /\ audioWithSilence[a].at > segments[audioWithSilence[a].cue].start

\* ------------------------------------------ generateTTSSegments on its own

\* Largest number of cues handed to generateTTSSegments.
MaxFitCues == 2

\* Cues as in CueShapes, and one with a window of 2.4 s: a render of 3.0 s
\* is then 0.6 s too long at a rate adjustment of 1.25, so that three
\* adjustments stay under the maximum rate.
FitShapes ==
  { [gap |-> 0,    win |-> 1000, empty |-> FALSE],
    [gap |-> 30,   win |-> 1000, empty |-> FALSE],
    [gap |-> 1000, win |-> 1000, empty |-> FALSE],
    [gap |-> 0,    win |-> 2400, empty |-> FALSE],
    [gap |-> 1000, win |-> 50,   empty |-> TRUE],
    [gap |-> 0,    win |-> 1000, empty |-> TRUE] }

FitShapeLists == UNION { [1..n -> FitShapes] : n \in 0..MaxFitCues }

FitInit ==
  /\ \E shapes \in FitShapeLists :
       \E f \in Perms(Len(shapes)) :
         segments = Permute(CuesFrom(shapes, 0), f)
  /\ pc = "start"
  /\ outcome = "running"
  /\ tempDir = FALSE
  /\ i = 0 /\ lpc = "loop" /\ attempts = 0 /\ ttsCalls = 0
  /\ currentRate = baseSpeakingRate
  /\ actualDuration = 0 /\ expectedDuration = 0
  /\ gapExtensionApplied = FALSE
  /\ results = <<>>
  /\ k = 0 /\ apc = "initial"
  /\ audioWithSilence = <<>>
  /\ timingDebt = 0
  /\ actualTimelinePosition = 0
  /\ debtToPay = 0
  /\ FilesIdle
  /\ KeyIdle /\ CacheIdle /\ QueueIdle /\ JobIdle /\ CreditIdle /\ AudioIdle

\* const savedTime = actualDuration - trimmedDuration, noted when the
\* trimmed file has replaced the original.
NoteSavedTime ==
  trimSaved' =
    IF results'[i].actualDuration # actualDuration
    THEN trimSaved \cup {[cue |-> i,
                          savedTime |-> actualDuration - results'[i].actualDuration]}
    ELSE trimSaved

\* generateTTSWithTiming up to the return of generateTTSSegments.
FitNext ==
  \/ Begin /\ UNCHANGED restVars
  \/ FitEmptySegment /\ UNCHANGED restVars
  \/ RenderAttempt /\ UNCHANGED restVars
  \/ SynthesisFails /\ UNCHANGED <<outputTrack, faultVars, otherVars>>
  \/ KeepSegment /\ UNCHANGED restVars
  \/ TrimTrailingSilence /\ NoteSavedTime
       /\ UNCHANGED <<lostFiles, emptyFiles, trimFailed, cacheHitCues, outVars, otherVars>>
  \/ TrimFails /\ UNCHANGED restVars
  \/ Cleanup /\ UNCHANGED restVars

FitSpec == FitInit /\ [][FitNext]_vars

\* A render of the current cue has just been measured as more than
\* syncThreshold over the expected duration.
MeasuredTooLong ==
  /\ pc = "fit" /\ lpc = "loop" /\ ttsCalls' = ttsCalls + 1
  /\ ~CloseEnough(actualDuration', expectedDuration')

\* C27: a render measured as too long is followed by a render at the
\* clamped new rate; the loop is left with the cue still too long only
\* when the render just measured was made at the maximum rate.
RenderedAtClampedRate ==
  [][MeasuredTooLong =>
       /\ lpc' = "loop" =>
            currentRate' = ClampRate(NewSpeakingRate(currentRate, actualDuration',
                                                     expectedDuration'))
       /\ lpc' = "after" => currentRate = maxSpeakingRate]_vars

\* C28: no cue is rendered more than maxAttempts times, every cue handled
\* has exactly one result, and the actualDuration of a result is the
\* duration of the cue's file.
OneResultPerCue ==
  /\ ttsCalls <= maxAttempts
  /\ pc = "fit" => Len(results) = i - 1
  /\ pc = "assemble" => Len(results) = N
  /\ \A c \in 1..Len(results) : results[c].actualDuration = results[c].fileDur

\* A rate inside [minSpeakingRate, maxSpeakingRate].
RateInRange(r) == RateLE(minSpeakingRate, r) /\ RateLE(r, maxSpeakingRate)

\* C29: every render of a cue is made at a rate inside [0.25, 2.0], and a
\* render that schedules another one schedules it at a strictly greater
\* rate.
RatesOnlyIncrease ==
  [][(pc = "fit" /\ lpc = "loop" /\ ttsCalls' = ttsCalls + 1)
       => /\ RateInRange(currentRate)
          /\ lpc' = "loop" =>
               (RateLT(currentRate, currentRate') /\ RateInRange(currentRate'))]_vars

\* C29 witness: a cue rendered twice is about to be rendered a third time,
\* at a rate above the base rate.
ThirdRenderFaster ==
  /\ pc = "fit" /\ lpc = "loop"
  /\ ttsCalls = 2 /\ attempts = 2
  /\ RateLT(baseSpeakingRate, currentRate)
  /\ RateLT(currentRate, maxSpeakingRate)

\* C30: the duration recorded for a cue differs from the duration measured
\* when the fitting loop ended only if the cue was then more than
\* syncThreshold over its expected duration, and it is then strictly
\* shorter; a replacement by the trim fallback is of that kind.
TrimOnlyShortens ==
  [][/\ (pc = "fit" /\ lpc = "after" /\ Len(results') = Len(results) + 1)
          => /\ results'[i].actualDuration <= actualDuration
             /\ results'[i].fileDur = results'[i].actualDuration
             /\ results'[i].actualDuration # actualDuration
                  => actualDuration - expectedDuration > syncThreshold
     /\ \A t \in trimSaved' :
          /\ t.savedTime > 0
          /\ results'[t.cue].actualDuration + t.savedTime
               - results'[t.cue].expectedDuration > syncThreshold]_vars

\* C30 witness: the trimmed file replaced the original of a cue, which is
\* still too long after it.
TrimmedButStillTooLong ==
  \E t \in trimSaved :
    /\ t.savedTime > 0
    /\ results[t.cue].overflow > syncThreshold

\* The cues of the speech pieces of a list of pieces, in the list's order.
IsSpeech(p) == p.kind = "speech"
SpeechCues(ps) ==
  LET sp == SelectSeq(ps, IsSpeech) IN [a \in 1..Len(sp) |-> sp[a].cue]

\* C31: the concatenated track holds the speech piece of every cue exactly
\* once, in ascending order of cue start, and its other pieces are silence.
SpeechTrackComplete ==
  outputTrack # <<>> =>
    /\ SpeechCues(outputTrack) = [c \in 1..N |-> c]
    /\ \A c \in 1..(N - 1) : segments[c].start <= segments[c + 1].start
    /\ \A a \in 1..Len(outputTrack) :
         outputTrack[a].kind \in {"speech", "initial", "align", "gap"}

\* C32: processingCount is the number of jobs that processJob is working
\* on: a job that processJob has left has given its slot back.
SlotsNeverLeaked == processingCount = Cardinality(running)

\* C33: a job whose status is completed or failed keeps that status; only
\* the removal of its record ends it.
TerminalStatusFinal ==
  [][\A j \in 1..MaxJobs :
       jobStatus[j] \in {"completed", "failed"} =>
         jobStatus'[j] \in {jobStatus[j], "deleted"}]_vars

\* --------------------------------------- one user's credits, several jobs

\* Jobs of one user that are processed at the same time.
MaxCreditJobs == 3

\* Cues in one of those jobs.
MaxCreditCues == 2

\* The user's balance before the jobs, in half credits.
OpeningBalances == {0, 2, 3, 8}

CreditInit ==
  /\ \E balance \in OpeningBalances :
       userCredits = [ credits |-> [balance |-> balance, reservedCredits |-> 0],
                       finalized |-> 0 ]
  /\ \E cues \in [1..MaxCreditJobs -> 0..MaxCreditCues] :
       userJobs = [ j \in 1..MaxCreditJobs |->
                      [ pc |-> "reserve", cues |-> cues[j], reservedAmount |-> 0,
                        creditsReserved |-> FALSE, actualCreditsUsed |-> 0 ] ]
  /\ PipeIdle /\ FilesIdle /\ KeyIdle /\ CacheIdle /\ QueueIdle /\ JobIdle /\ AudioIdle

Insufficient_Never(c, amount) == FALSE

\* reserveCredits: availableBalance < args.amount throws "Insufficient
\* credits" before anything is written.
Insufficient(c, amount) == c.balance - c.reservedCredits < amount

\* The reserveCredits mutation, when it does not throw.
reserveCredits(d, amount) == [d EXCEPT !.credits.reservedCredits = @ + amount]

\* processJob, lines 475-487: one credit estimated per cue, and
\* reserveCreditsForJob, which returns false when the mutation throws.
ReserveFor(j) ==
  /\ userJobs[j].pc = "reserve"
  /\ LET estimatedCredits == userJobs[j].cues * CREDIT_COST_CACHE_MISS
     IN  IF Insufficient(userCredits.credits, estimatedCredits)
         THEN /\ userJobs' = [userJobs EXCEPT ![j].reservedAmount = estimatedCredits,
                                              ![j].pc = "catch"]
              /\ UNCHANGED userCredits
         ELSE /\ userCredits' = reserveCredits(userCredits, estimatedCredits)
              /\ userJobs' = [userJobs EXCEPT ![j].reservedAmount = estimatedCredits,
                                              ![j].creditsReserved = TRUE,
                                              ![j].pc = "tts"]
  /\ UNCHANGED <<pipeVars, faultVars, outVars, previous, audioVars, keyVars, cacheVars, queueVars, jobVars>>

\* generateTTSWithTiming returns its credit usage: every cue is a cache
\* hit or a cache miss, and the mix that follows succeeds.
UsageFor(j) ==
  /\ userJobs[j].pc = "tts"
  /\ \E cacheHits \in 0..userJobs[j].cues :
       userJobs' = [userJobs EXCEPT
                      ![j].actualCreditsUsed =
                         TotalCredits(cacheHits, userJobs[j].cues - cacheHits),
                      ![j].pc = "finalize"]
  /\ UNCHANGED <<userCredits, pipeVars, faultVars, outVars, previous, audioVars, keyVars, cacheVars, queueVars, jobVars>>

\* A step between the reservation and the finalization throws.
ThrowsFor(j) ==
  /\ userJobs[j].pc = "tts"
  /\ userJobs' = [userJobs EXCEPT ![j].pc = "catch"]
  /\ UNCHANGED <<userCredits, pipeVars, faultVars, outVars, previous, audioVars, keyVars, cacheVars, queueVars, jobVars>>

\* processJob, lines 612-621: finalizeCreditsForJob with the actual amount.
FinalizeFor(j) ==
  /\ userJobs[j].pc = "finalize"
  /\ userCredits' = finalizeCredits(userCredits, userJobs[j].reservedAmount,
                                    userJobs[j].actualCreditsUsed, FALSE)
  /\ userJobs' = [userJobs EXCEPT ![j].pc = "completed"]
  /\ UNCHANGED <<pipeVars, faultVars, outVars, previous, audioVars, keyVars, cacheVars, queueVars, jobVars>>

\* The catch of processJob, lines 631-642: what was reserved is released.
ReleaseFor(j) ==
  /\ userJobs[j].pc = "catch"
  /\ userCredits' = IF userJobs[j].creditsReserved /\ userJobs[j].reservedAmount > 0
                    THEN finalizeCredits(userCredits, userJobs[j].reservedAmount, 0, TRUE)
                    ELSE userCredits
  /\ userJobs' = [userJobs EXCEPT ![j].pc = "failed"]
  /\ UNCHANGED <<pipeVars, faultVars, outVars, previous, audioVars, keyVars, cacheVars, queueVars, jobVars>>

CreditNext ==
  \E j \in 1..MaxCreditJobs :
    \/ ReserveFor(j)
    \/ UsageFor(j)
    \/ ThrowsFor(j)
    \/ FinalizeFor(j)
    \/ ReleaseFor(j)

CreditSpec == CreditInit /\ [][CreditNext]_vars

\* C34: whatever the order in which concurrently processed jobs of a user
\* reserve and finalize, 0 <= reservedCredits <= balance after every step,
\* and a reservation refused for lack of available balance leaves the
\* user's credits as they were.
AvailableNeverNegative ==
  [][/\ 0 <= userCredits'.credits.reservedCredits
     /\ userCredits'.credits.reservedCredits <= userCredits'.credits.balance
     /\ \A j \in 1..MaxCreditJobs :
          (userJobs[j].pc = "reserve" /\ userJobs'[j].pc = "catch")
            => userCredits' = userCredits]_vars

\* Two jobs hold reservations at once, a third was refused, and one job
\* has been finalized for less than it reserved.
RefusedWhileOthersReserved ==
  \E a, b, c \in 1..MaxCreditJobs :
    /\ a # b
    /\ userJobs[a].pc = "completed"
    /\ userJobs[a].actualCreditsUsed < userJobs[a].reservedAmount
    /\ userJobs[b].pc \in {"tts", "finalize"} /\ userJobs[b].reservedAmount > 0
    /\ userJobs[c].pc = "failed" /\ ~userJobs[c].creditsReserved
    /\ userCredits.credits.reservedCredits > 0

\* C35: the reservation is one credit per cue; the credits used are half
\* a credit per cache hit and one per cache miss, hits and misses adding
\* up to the number of cues; and what finalizeCredits takes from the
\* balance is that amount, never more than the reservation.
ChargeWithinReservation ==
  (pj # <<>> /\ pj.creditsReserved) =>
    LET cacheHits == Cardinality(cacheHitCues)
        cacheMisses == Len(segments) - cacheHits
    IN  /\ pj.reservedAmount = Len(segments) * CREDIT_COST_CACHE_MISS
        /\ pj.actualCreditsUsed <= pj.reservedAmount
        /\ db.opening - db.credits.balance <= pj.reservedAmount
        /\ pj.pc \in {"mix", "finalize"} =>
             /\ cacheHitCues \subseteq 1..Len(segments)
             /\ pj.actualCreditsUsed = TotalCredits(cacheHits, cacheMisses)
        /\ db.job.status = "completed" =>
             db.opening - db.credits.balance = pj.actualCreditsUsed

\* A job of two cues, one a cache hit and one a cache miss, is completed
\* and charged 1.5 credits of the 2 it reserved.
ChargedHitAndMiss ==
  /\ pj # <<>> /\ pj.pc = "done" /\ db.job.exists /\ db.job.status = "completed"
  /\ Len(segments) = 2 /\ Cardinality(cacheHitCues) = 1
  /\ pj.reservedAmount = 2 * CREDIT_COST_CACHE_MISS
  /\ db.opening - db.credits.balance
       = CREDIT_COST_CACHE_HIT + CREDIT_COST_CACHE_MISS

\* C36: the phases of a job follow one another: assembly begins when every
\* cue has its fitting result, the mix begins when generateTTSWithTiming
\* has written the speech track and returned, and the job is marked
\* completed when the mix has produced the merged track.
PhasesInOrder ==
  [][/\ (pc # "assemble" /\ pc' = "assemble") =>
          (i' > Len(segments') /\ Len(results') = Len(segments'))
     /\ (pj.pc # "mix" /\ pj'.pc = "mix") =>
          (pc = "done" /\ outcome = "ok" /\ outputTrack # <<>>)
     /\ (db.job.status # "completed" /\ db'.job.status = "completed") =>
          (pj.pc = "finalize" /\ db.job.ttsAudio /\ db.job.mergedAudio)]_vars

\* A job of two cues went through fitting, assembly and the mix and is
\* completed.
CompletedThroughAllPhases ==
  /\ pj # <<>> /\ db.job.exists /\ db.job.status = "completed"
  /\ db.job.mergedAudio
  /\ Len(segments) = 2 /\ Len(results) = 2
  /\ outputTrack # <<>>

\* ------------------------------------------- generateTTS and the base rate

\* generateTTS calls made one after another.
MaxGenCalls == 3

\* What the callers pass: no rate, the base rate, or the rate of a re-render.
RateOptions ==
  { <<>>, [speakingRate |-> <<1, 1>>], [speakingRate |-> <<3, 2>>],
    [speakingRate |-> <<2, 1>>] }

RateKeySet ==
  { getCacheKey(cleanTextForTTS(t), MergeDefaults(o)) :
      t \in CallTexts, o \in RateOptions }

NoAudio == <<>>
NoRequest == <<>>

RateInit ==
  /\ gen = [ gpc |-> "idle", made |-> 0, text |-> <<>>, opts |-> <<>>,
             cacheKey |-> NoKey, request |-> NoRequest,
             audioBuffer |-> NoAudio, output |-> NoAudio, cacheHit |-> FALSE ]
  /\ audioCache = [key \in RateKeySet |-> NoAudio]
  /\ PipeIdle /\ FilesIdle /\ KeyIdle /\ CacheIdle /\ QueueIdle /\ JobIdle
  /\ CreditIdle /\ SpeedIdle /\ DuckIdle

TtsRequest_AtRate(cleanedText, opts) ==
  [ input |-> cleanedText, languageCode |-> opts.languageCode,
    name |-> opts.voiceName, audioEncoding |-> opts.audioEncoding,
    speakingRate |-> opts.speakingRate, pitch |-> opts.pitch ]

\* The request of generateTTS: speakingRate: 1.0, "Always generate at 1.0
\* for cache".
TtsRequest(cleanedText, opts) ==
  [ input |-> cleanedText, languageCode |-> opts.languageCode,
    name |-> opts.voiceName, audioEncoding |-> opts.audioEncoding,
    speakingRate |-> <<1, 1>>, pitch |-> opts.pitch ]

\* The synthesis collaborator speaks the text at the rate it is asked for.
synthesizeSpeech(request) ==
  [ text |-> request.input, rate |-> request.speakingRate,
    format |-> request.audioEncoding ]

\* convertAudioToWav changes the container, not the speed.
convertAudioToWav(audio) == [audio EXCEPT !.format = "WAV"]

\* adjustAudioSpeed as generateTTS uses it: the audio, faster by the factor.
SpeedAdjusted(audio, factor) ==
  [audio EXCEPT !.rate = <<@[1] * factor[1], @[2] * factor[2]>>]

\* The end of both branches: the converted copy is adjusted when
\* speakingRate !== 1.0, else renamed to outputPath.
WriteOutput(tempWav, speakingRate) ==
  IF speakingRate # <<1, 1>> THEN SpeedAdjusted(tempWav, speakingRate) ELSE tempWav

\* generateTTS up to getCachedAudio.
GenStart ==
  /\ gen.gpc = "idle"
  /\ gen.made < MaxGenCalls
  /\ \E text \in CallTexts, options \in RateOptions :
       LET cleanedText == cleanTextForTTS(text)
           opts == MergeDefaults(options)
       IN  gen' = [gen EXCEPT !.gpc = "lookup", !.text = cleanedText,
                              !.opts = opts,
                              !.cacheKey = getCacheKey(cleanedText, opts),
                              !.request = NoRequest, !.audioBuffer = NoAudio,
                              !.output = NoAudio, !.cacheHit = FALSE]
  /\ UNCHANGED <<audioCache, speedVars, duckVars, pipeVars, faultVars, outVars, previous, creditVars, keyVars, cacheVars, queueVars, jobVars>>

\* Lines 324-348: the cached MP3 is converted to a temporary WAV, and the
\* output is made from that copy.
GenCacheHit ==
  /\ gen.gpc = "lookup"
  /\ audioCache[gen.cacheKey] # NoAudio
  /\ gen' = [gen EXCEPT
               !.output = WriteOutput(convertAudioToWav(audioCache[gen.cacheKey]),
                                      gen.opts.speakingRate),
               !.cacheHit = TRUE, !.made = @ + 1, !.gpc = "idle"]
  /\ UNCHANGED <<audioCache, speedVars, duckVars, pipeVars, faultVars, outVars, previous, creditVars, keyVars, cacheVars, queueVars, jobVars>>

\* Lines 351-374: a miss builds the request.
GenRequest ==
  /\ gen.gpc = "lookup"
  /\ audioCache[gen.cacheKey] = NoAudio
  /\ gen' = [gen EXCEPT !.request = TtsRequest(gen.text, gen.opts), !.gpc = "synth"]
  /\ UNCHANGED <<audioCache, speedVars, duckVars, pipeVars, faultVars, outVars, previous, creditVars, keyVars, cacheVars, queueVars, jobVars>>

\* Lines 376-386: the answer of synthesizeSpeech is saved in the cache as
\* it came.
GenSynthesized ==
  /\ gen.gpc = "synth"
  /\ LET audioBuffer == synthesizeSpeech(gen.request)
     IN  /\ gen' = [gen EXCEPT !.audioBuffer = audioBuffer, !.gpc = "convert"]
         /\ audioCache' = [audioCache EXCEPT ![gen.cacheKey] = audioBuffer]
  /\ UNCHANGED <<speedVars, duckVars, pipeVars, faultVars, outVars, previous, creditVars, keyVars, cacheVars, queueVars, jobVars>>

\* synthesizeSpeech rejects: generateTTS throws, nothing is cached.
GenSynthesisFails ==
  /\ gen.gpc = "synth"
  /\ gen' = [gen EXCEPT !.made = @ + 1, !.gpc = "idle"]
  /\ UNCHANGED <<audioCache, speedVars, duckVars, pipeVars, faultVars, outVars, previous, creditVars, keyVars, cacheVars, queueVars, jobVars>>

\* Lines 388-414: the buffer is written to a temporary MP3, converted,
\* and the output is made from the converted copy.
GenConvert ==
  /\ gen.gpc = "convert"
  /\ gen' = [gen EXCEPT
               !.output = WriteOutput(convertAudioToWav(gen.audioBuffer),
                                      gen.opts.speakingRate),
               !.made = @ + 1, !.gpc = "idle"]
  /\ UNCHANGED <<audioCache, speedVars, duckVars, pipeVars, faultVars, outVars, previous, creditVars, keyVars, cacheVars, queueVars, jobVars>>

RateNext ==
  \/ GenStart
  \/ GenCacheHit
  \/ GenRequest
  \/ GenSynthesized
  \/ GenSynthesisFails
  \/ GenConvert

RateSpec == RateInit /\ [][RateNext]_vars

\* C37: every synthesis request asks for speakingRate 1.0, every cache
\* entry is the audio at rate 1.0 as the collaborator returned it, and
\* the output of a call is a converted copy at the rate the caller asked
\* for.
CacheHoldsBaseRate ==
  /\ gen.request # NoRequest => gen.request.speakingRate = <<1, 1>>
  /\ \A key \in DOMAIN audioCache :
       audioCache[key] # NoAudio =>
         /\ audioCache[key].rate[1] = audioCache[key].rate[2]
         /\ audioCache[key].format = "MP3"
  /\ gen.output # NoAudio =>
       /\ gen.output.format = "WAV"
       /\ gen.output.rate[1] * gen.opts.speakingRate[2]
            = gen.opts.speakingRate[1] * gen.output.rate[2]

\* A call at rate 1.5 was served from the cache: its output runs at 1.5
\* and the entry it was made from is still at 1.0.
CacheHitAtOtherRate ==
  /\ gen # <<>> /\ gen.gpc = "idle" /\ gen.cacheHit
  /\ gen.opts.speakingRate = <<3, 2>>
  /\ gen.output.rate = <<3, 2>>
  /\ audioCache[gen.cacheKey].rate = <<1, 1>>

\* ------------------------------------------------------- adjustAudioSpeed

\* Target speeds in steps of 0.05, from -0.10 up to this many steps.
MaxSpeedSteps == 90

\* Stages of the chain the model follows the loop for.
MaxStages == 6

\* Speeds are fractions <<numerator, denominator>>; a stage is the number
\* toFixed(3) prints, in thousandths.
TargetSpeeds ==
  { Reduce(<<n * 5, 100>>) : n \in (0 - 2)..MaxSpeedSteps }
    \cup { Reduce(<<n, 10000>>) : n \in {9950, 10050, 20100, 4975, 12346} }

AtempoInit ==
  /\ targetSpeed \in TargetSpeeds
  /\ remainingSpeed = targetSpeed
  /\ filters = <<>>
  /\ speedPc = "loop"
  /\ PipeIdle /\ FilesIdle /\ KeyIdle /\ CacheIdle /\ QueueIdle /\ JobIdle
  /\ CreditIdle /\ RateIdle /\ DuckIdle

\* Math.abs(remainingSpeed - 1.0) > 0.01
FarFromOne(r) == Abs(r[1] - r[2]) * 100 > r[2]

\* tempo.toFixed(3), in thousandths, for a tempo between 0.5 and 2.0.
ToFixed3(r) == (2000 * r[1] + r[2]) \div (2 * r[2])

\* One pass of the while loop of adjustAudioSpeed.
AtempoStage ==
  /\ speedPc = "loop"
  /\ FarFromOne(remainingSpeed)
  /\ Len(filters) < MaxStages
  /\ IF remainingSpeed[1] > 2 * remainingSpeed[2]
     THEN /\ filters' = Append(filters, 2000)
          /\ remainingSpeed' = Reduce(<<remainingSpeed[1], 2 * remainingSpeed[2]>>)
     ELSE IF 2 * remainingSpeed[1] < remainingSpeed[2]
     THEN /\ filters' = Append(filters, 500)
          /\ remainingSpeed' = Reduce(<<2 * remainingSpeed[1], remainingSpeed[2]>>)
     ELSE /\ filters' = Append(filters, ToFixed3(remainingSpeed))
          /\ remainingSpeed' = <<1, 1>>
  /\ UNCHANGED <<targetSpeed, speedPc, rateVars, duckVars, pipeVars, faultVars, outVars, previous, creditVars, keyVars, cacheVars, queueVars, jobVars>>

\* After the loop: the file is copied when there is no stage, else ffmpeg
\* is run with the stages joined into one audio filter.
RunFilterChain ==
  /\ speedPc = "loop"
  /\ ~FarFromOne(remainingSpeed)
  /\ speedPc' = IF filters = <<>> THEN "copied" ELSE "filtered"
  /\ UNCHANGED <<targetSpeed, remainingSpeed, filters, rateVars, duckVars, pipeVars, faultVars, outVars, previous, creditVars, keyVars, cacheVars, queueVars, jobVars>>

AtempoNext ==
  \/ AtempoStage
  \/ RunFilterChain

AtempoSpec == AtempoInit /\ [][AtempoNext]_vars

\* The factor of one stage, and of a chain of stages.
StageFactor(f) ==
  IF f = 2000 THEN <<2, 1>> ELSE IF f = 500 THEN <<1, 2>> ELSE Reduce(<<f, 1000>>)
RECURSIVE ChainFactor(_)
ChainFactor(fs) ==
  IF fs = <<>> THEN <<1, 1>>
  ELSE LET h == StageFactor(Head(fs))
           t == ChainFactor(Tail(fs))
       IN  Reduce(<<h[1] * t[1], h[2] * t[2]>>)

\* C38: for a positive target, every stage of the finished chain lies in
\* [0.5, 2.0], the stages multiply to the target, and a target within
\* [0.5, 2.0] gives at most one stage.
ChainMultipliesToTarget ==
  (speedPc \in {"copied", "filtered"} /\ targetSpeed[1] > 0) =>
    /\ \A a \in 1..Len(filters) : filters[a] >= 500 /\ filters[a] <= 2000
    /\ ChainFactor(filters) = targetSpeed
    /\ (2 * targetSpeed[1] >= targetSpeed[2] /\ targetSpeed[1] <= 2 * targetSpeed[2])
         => Len(filters) <= 1

\* How far a speed is from the range [0.5, 2.0], as a fraction.
OutsideRange(r) ==
  IF r[1] > 2 * r[2] THEN <<r[1] - 2 * r[2], r[2]>>
  ELSE IF 2 * r[1] < r[2] THEN <<r[2] - 2 * r[1], 2 * r[2]>>
  ELSE <<0, 1>>

\* C39: the loop ends for every target: each pass that does not end it
\* brings remainingSpeed nearer to the range [0.5, 2.0], from which the
\* next pass ends it.
EveryPassNearsTheEnd ==
  [][(speedPc = "loop" /\ filters' # filters) =>
       \/ remainingSpeed' = <<1, 1>>
       \/ RateLT(OutsideRange(remainingSpeed'), OutsideRange(remainingSpeed))]_vars

\* ----------------------------------------------- applySidechainCompression

DuckFields == {"threshold", "ratio", "attack", "release"}

\* Values a caller may pass for each option.
DuckValues ==
  [ threshold |-> {0 - 20, 0 - 30}, ratio |-> {4, 8},
    attack |-> {0, 20}, release |-> {100, 250} ]

\* The options argument: any of the fields, each with one of its values.
DuckOptionSets ==
  UNION { { o \in [fs -> UNION { DuckValues[f] : f \in DuckFields }] :
              \A f \in fs : o[f] \in DuckValues[f] } :
            fs \in SUBSET DuckFields }

\* The defaults as documented: Threshold -20 dB, Ratio 4:1, Attack 20 ms,
\* Release 250 ms.
DocumentedDefaults ==
  [ threshold |-> 0 - 20, ratio |-> 4, attack |-> 20, release |-> 250 ]

\* const opts = { threshold: options?.threshold ?? -35, ... }
DuckOpts(options) ==
  LET fallback == [ threshold |-> 0 - 35, ratio |-> 15, attack |-> 10,
                    release |-> 500 ]
  IN  [f \in DuckFields |-> IF f \in DOMAIN options THEN options[f] ELSE fallback[f]]

\* The first filter of the graph, as written in the source:
\* sidechaincompress=threshold=-40dB:ratio=20:attack=5:release=200
SidechainCompress(opts) ==
  [ threshold |-> 0 - 40, ratio |-> 20, attack |-> 5, release |-> 200 ]

DuckInit ==
  /\ duckOptions \in DuckOptionSets
  /\ duckFilter = [ state |-> "called" ]
  /\ PipeIdle /\ FilesIdle /\ KeyIdle /\ CacheIdle /\ QueueIdle /\ JobIdle
  /\ CreditIdle /\ RateIdle /\ SpeedIdle

\* applySidechainCompression up to run(): opts, the log lines and the
\* filter graph given to ffmpeg.
applySidechainCompression ==
  /\ duckFilter.state = "called"
  /\ duckFilter' = [ state |-> "running", opts |-> DuckOpts(duckOptions),
                     compressor |-> SidechainCompress(DuckOpts(duckOptions)) ]
  /\ UNCHANGED <<duckOptions, rateVars, speedVars, pipeVars, faultVars, outVars, previous, creditVars, keyVars, cacheVars, queueVars, jobVars>>

\* ffmpeg ends: the promise resolves; or fails: it rejects.
FfmpegEnds ==
  /\ duckFilter.state = "running"
  /\ \E state \in {"resolved", "rejected"} :
       duckFilter' = [duckFilter EXCEPT !.state = state]
  /\ UNCHANGED <<duckOptions, rateVars, speedVars, pipeVars, faultVars, outVars, previous, creditVars, keyVars, cacheVars, queueVars, jobVars>>

DuckNext ==
  \/ applySidechainCompression
  \/ FfmpegEnds

DuckSpec == DuckInit /\ [][DuckNext]_vars

\* C40: the compressor stage runs with the threshold, ratio, attack and
\* release passed in the options, and with the documented default for
\* each one left out.
DuckParametersApplied ==
  duckFilter.state \in {"running", "resolved", "rejected"} =>
    \A f \in DuckFields :
      duckFilter.compressor[f] =
        IF f \in DOMAIN duckOptions THEN duckOptions[f] ELSE DocumentedDefaults[f]

====
